---- MODULE Spec2Model ----
(***************************************************************************)
(* Model of dmpool's payment ledger (src/src/payment/mod.rs):              *)
(* PaymentManager with its balance map, payout list, the three tokio       *)
(* RwLocks, the two snapshot files written by save(), and the Bitcoin node *)
(* the gateway talks to.  Every async method is cut at its await points:   *)
(* one action per stretch of code between two awaits.                      *)
(*                                                                         *)
(* u64 values are integers; a negative integer -k stands for the wrapped   *)
(* value 2^64 - k, so wrapping_sub / wrapping_add are plain - and + and    *)
(* unsigned comparison is U64Lt.  Arithmetic that overflows either wraps   *)
(* (release profile) or panics (overflow checks on): both are modelled.    *)
(* Timestamps (updated_at, created_at, broadcast_at) are left out.         *)
(*                                                                         *)
(* The PPLNS section models PplnsSimulator::calculate_payout               *)
(* (src/src/pplns_validator/mod.rs) as an operator applied to a share      *)
(* window that grows one share at a time.                                  *)
(***************************************************************************)
EXTENDS Integers, Sequences, FiniteSets, TLC

\* ---------------------------------------------------------------- bounds
NumProcs == 2
MaxAmount == 2
MaxEarned == 2
MaxPayoutIds == 3
MaxSent == 2
MaxPaid == 2
MaxFaults == 1
MaxCalls == 4
MaxLedgerCalls == 5
MaxConcCalls == 4
MaxShares == 4
MaxAutoCalls == 8
MaxRequests == 2
MaxClock == 902
MaxRateCalls == 4
MaxInstant == 80
MaxEntries == 4
MaxAuditLen == 6
MaxAuthCalls == 4
MaxTfCalls == 6
MaxSetups == 2
MaxFsClock == 4
CodesPerSetup == 2

\* ------------------------------------------------------ program constants
\* PaymentManager::new sets max_payouts to 10000; the model scales the cap
\* down so that the trim in create_payout happens within MaxPayoutIds.
max_payouts == 2
\* PaymentConfig::default().required_confirmations
required_confirmations == 6
\* the dust limit of broadcast_payout
DustLimit == 546
\* RateLimitConfig::default() allows 60 API requests and 10 login attempts a
\* minute; the model scales both down so that the limits are met within
\* MaxRateCalls.
api_rpm == 2
login_rpm == 1
\* the window of check_api_rate_limit and check_login_rate_limit, in seconds
RateWindow == 60
\* AuditLogger::default() keeps 10000 entries in memory; the model scales the
\* cap down so that it is met within MaxEntries.
max_logs == 2
\* ConfigConfirmation::new: the requests expire after 10 minutes
confirmation_timeout == 600
max_backup_attempts == 3
lockout_duration == 300

Procs == 1..NumProcs
Addrs == {"a1", "a2"}
Amounts == 1..MaxAmount
PayoutIds == 1..MaxPayoutIds
ConfChoices == {required_confirmations - 1, required_confirmations}
Txids == {"txA"}
Heights == {100}
RequestIds == 1..MaxRequests
Ips == {"10.0.0.1", "10.0.0.2"}
Limiters == {"api", "login"}
\* the monotonic clock advances by a third of the window, or by two thirds
InstantSteps == {RateWindow \div 3, 2 * (RateWindow \div 3)}
\* the time between the two readings of the clock in one check
PushDelays == {0, RateWindow \div 3}
\* the tasks that run rate limit checks
RateCallers == {"c1", "c2"}
\* the tasks that call AuthManager
AuthCallers == {"t1", "t2"}
Usernames == {"admin", "bob"}
\* two passwords that pass validate_password_strength and one that does not
Passwords == {"Tr0ub4dor&3", "C0rrect-Horse", "password"}
\* the tasks that call TwoFactorManager
TfCallers == {"l1", "l2"}
TfUsers == {"admin"}
\* the backup codes generate_backup_codes draws, in the order drawn, and a
\* code (0) that is never drawn
BackupCodeChoices == 0..(CodesPerSetup * MaxSetups)
\* the configurations the file is given: an API port below 1024, or one of
\* two allowed ones, and one of two stats directories
Configs == [api_port : {80, 8080, 8081}, stats_dir : {"stats", "logs"}]
\* the wall clock advances by half the timeout, or by a second more
ClockSteps == {confirmation_timeout \div 2, confirmation_timeout \div 2 + 1}
NoHeight == -1

\* ------------------------------------------------------------ u64 helpers
\* a < b on u64, negative representatives being the wrapped (huge) values
U64Lt(a, b) == IF (a < 0) = (b < 0) THEN a < b ELSE b < 0

\* a - b would underflow
SubOverflows(a, b) == U64Lt(a, b)

\* a + b would exceed u64::MAX
AddOverflows(a, b) ==
    \/ a < 0 /\ b < 0
    \/ a < 0 /\ b >= 0 /\ a + b >= 0
    \/ b < 0 /\ a >= 0 /\ a + b >= 0

\* u64::saturating_sub
SaturatingSub(a, b) == IF U64Lt(a, b) THEN 0 ELSE a - b

\* ----------------------------------------------------------- wide amounts
\* The satoshi amounts of the PPLNS validator reach 2_100_000_000_000_000 and
\* its u128 products go beyond u64::MAX; an amount is written as its seven
\* digits in base 10000, least significant first (values below 10^28).
Zero == <<0, 0, 0, 0, 0, 0, 0>>

\* the amount n, for n that is an integer of the model
Sat(n) == <<n % 10000, (n \div 10000) % 10000, n \div 100000000, 0, 0, 0, 0>>

\* u64::MAX = 18_446_744_073_709_551_615
U64Max == <<1615, 955, 737, 6744, 1844, 0, 0>>

\* 2^64
TwoTo64 == <<1616, 955, 737, 6744, 1844, 0, 0>>

\* x < y
Less(x, y) == \E i \in 1..7 : x[i] < y[i] /\ \A j \in (i + 1)..7 : x[j] = y[j]

\* x + y
Plus(x, y) ==
    LET c[i \in 0..7] == IF i = 0 THEN 0 ELSE (x[i] + y[i] + c[i - 1]) \div 10000
        d == [i \in 1..7 |-> (x[i] + y[i] + c[i - 1]) % 10000]
    IN  <<d[1], d[2], d[3], d[4], d[5], d[6], d[7]>>

\* x - y, for y <= x
Minus(x, y) ==
    LET b[i \in 0..7] == IF i = 0 THEN 0
                         ELSE IF x[i] - y[i] - b[i - 1] < 0 THEN 1 ELSE 0
        d == [i \in 1..7 |-> (x[i] - y[i] - b[i - 1] + 10000) % 10000]
    IN  <<d[1], d[2], d[3], d[4], d[5], d[6], d[7]>>

\* x * k, for 0 <= k <= 200000
Times(x, k) ==
    LET c[i \in 0..7] == IF i = 0 THEN 0 ELSE (x[i] * k + c[i - 1]) \div 10000
        d == [i \in 1..7 |-> (x[i] * k + c[i - 1]) % 10000]
    IN  <<d[1], d[2], d[3], d[4], d[5], d[6], d[7]>>

\* floor(x / d), for 0 < d <= 200000
Over(x, d) ==
    LET r[i \in 1..8] == IF i = 8 THEN 0 ELSE (r[i + 1] * 10000 + x[i]) % d
        q == [i \in 1..7 |-> (r[i + 1] * 10000 + x[i]) \div d]
    IN  <<q[1], q[2], q[3], q[4], q[5], q[6], q[7]>>

\* the smaller of x and y
Least(x, y) == IF Less(y, x) THEN y ELSE x

RECURSIVE WrapU64(_)
\* x modulo 2^64: what a wrapping u64 operation keeps of x
WrapU64(x) == IF Less(U64Max, x) THEN WrapU64(Minus(x, TwoTo64)) ELSE x

\* ------------------------------------------------------------------ state
VARIABLES
    balances,      \* HashMap<String, MinerBalance>: a function on the known addresses
    payouts,       \* Vec<Payout>
    config,        \* PaymentConfig (the fields the ledger reads)
    locks,         \* holders of the three RwLocks: balances, payouts, config
    disk,          \* balances.json and payouts.json under data_dir
    next_id,       \* the next fresh payout id (uuid v4 in the source)
    sent,          \* node side: how many transactions were accepted per payout id
    pc,            \* per caller: where its call stands
    local,         \* per caller: arguments and locals of the call
    ret,           \* per caller: result of its last finished call
    faults,        \* environment: disk writes that have failed so far
    calls,         \* environment: calls begun so far
    shares,        \* the PPLNS share window handed to the simulator
    simulator,     \* PplnsSimulator
    calc,          \* result of the last calculate_payout on the window
    validation,    \* result of the last simulate_payouts on the window
    verdict,       \* result of the last validate_* call on the window
    pending,       \* ConfigConfirmation::pending: HashMap<String, ConfigChangeRequest>
    utc_now,       \* environment: the wall clock (Utc::now()), in seconds
    next_request,  \* the next fresh change request id (uuid v4 in the source)
    conf_ret,      \* result of the last ConfigConfirmation call
    history,       \* observer: what the ConfigConfirmation calls have answered so far
    api_request_times,    \* RateLimiterState: HashMap<String, Vec<Instant>>
    login_request_times,  \* RateLimiterState: HashMap<String, Vec<Instant>>
    instant,       \* environment: the monotonic clock (Instant::now()), in seconds
    rate_call,     \* per caller: the rate limit check it is waiting to run
    rate_ret,      \* per caller: result of its last rate limit check
    accepted,      \* observer: the instants of the requests each limiter let through
    rate_calls,    \* environment: rate limit checks begun so far
    audit_logs,    \* AuditLogger::logs: Vec<AuditLog>, the entries by their ids
    audit_file,    \* audit.jsonl: the entries appended so far
    next_entry,    \* the next fresh audit entry id (uuid v4 in the source)
    auto,          \* per caller: the frame of its process_auto_payouts call
    users,         \* AuthManager.users, in the order pushed
    users_readers, \* the callers that hold a read guard of users
    auth_pc,       \* where each caller of AuthManager is
    auth_call,     \* the arguments of each caller's call
    auth_ret,      \* what each caller's last call returned
    auth_calls,    \* the number of calls begun
    secrets,       \* TwoFactorManager.secrets: none, disabled or enabled, by user
    backup_codes,  \* TwoFactorManager.backup_codes: the hashed codes, by user
    backup_file,   \* backup_codes.json
    codes_writer,  \* the callers that hold the write guard of backup_codes
    backup_code_rate_limits, \* attempts and locked_until, by user
    next_code,     \* the next backup code the generator draws
    tf_pc,         \* where each caller of TwoFactorManager is
    tf_call,       \* the arguments of each caller's call
    tf_ret,        \* what each caller's last call returned
    tf_calls,      \* the number of calls begun
    tf_logins,     \* by backup code, the logins it has let in
    consumed,      \* the backup codes consume_backup_code has removed
    config_file,   \* the watched file: its content and modification time
    fs_clock,      \* the time of the file system
    current_config, \* ConfigReloader.current_config
    last_modified, \* ConfigReloader.last_modified
    checksum,      \* ConfigReloader.checksum
    checksum_readers, \* the tasks that hold a read guard of checksum
    watcher_pc,    \* where the watcher task is
    watcher_local, \* the locals of check_and_reload
    returned_config \* what get_config returned last

\* the state of the PPLNS validator (src/src/pplns_validator/mod.rs)
pplns_vars == <<shares, simulator, calc, validation, verdict>>

\* the state of the payment ledger (src/src/payment/mod.rs)
payment_vars == <<balances, payouts, config, locks, disk, next_id, sent, pc, local,
                  ret, faults, calls>>

\* the state of the change confirmation (src/src/confirmation/mod.rs)
confirmation_vars == <<pending, utc_now, next_request, conf_ret, history>>

\* the state of the rate limiter (src/src/rate_limit/mod.rs)
rate_vars == <<api_request_times, login_request_times, instant, rate_call, rate_ret,
               accepted, rate_calls>>

\* the state of the audit log (src/src/audit/mod.rs)
audit_vars == <<audit_logs, audit_file, next_entry>>

\* the state of process_auto_payouts (src/src/payment/mod.rs)
auto_vars == <<auto>>

\* the state of AuthManager (src/src/auth/mod.rs)
auth_vars == <<users, users_readers, auth_pc, auth_call, auth_ret, auth_calls>>

\* the state of TwoFactorManager (src/src/two_factor/mod.rs)
twofa_vars == <<secrets, backup_codes, backup_file, codes_writer, backup_code_rate_limits, next_code, tf_pc, tf_call, tf_ret, tf_calls, tf_logins, consumed>>

\* the state of ConfigReloader (src/src/reload/mod.rs)
reload_vars == <<config_file, fs_clock, current_config, last_modified, checksum, checksum_readers, watcher_pc, watcher_local, returned_config>>

\* the state of the other services
service_vars == <<audit_vars, auto_vars, auth_vars, twofa_vars, reload_vars>>

\* all the state but audit_vars
beside_audit ==
    <<payment_vars, pplns_vars, confirmation_vars, rate_vars, auto_vars, auth_vars, twofa_vars, reload_vars>>

\* all the state but auto_vars
beside_auto ==
    <<payment_vars, pplns_vars, confirmation_vars, rate_vars, audit_vars, auth_vars, twofa_vars, reload_vars>>

\* all the state but auth_vars
beside_auth ==
    <<payment_vars, pplns_vars, confirmation_vars, rate_vars, audit_vars, auto_vars, twofa_vars, reload_vars>>

\* all the state but twofa_vars
beside_twofa ==
    <<payment_vars, pplns_vars, confirmation_vars, rate_vars, audit_vars, auto_vars, auth_vars, reload_vars>>

\* all the state but reload_vars
beside_reload ==
    <<payment_vars, pplns_vars, confirmation_vars, rate_vars, audit_vars, auto_vars, auth_vars, twofa_vars>>

\* the state of the admin services
admin_vars == <<confirmation_vars, rate_vars, service_vars>>

vars == <<balances, payouts, config, locks, disk, next_id, sent, pc, local, ret,
          faults, calls, shares, simulator, calc, validation, verdict,
          pending, utc_now, next_request, conf_ret, history,
          api_request_times, login_request_times, instant, rate_call, rate_ret,
          accepted, rate_calls,
          audit_logs, audit_file, next_entry,
          auto,
          users, users_readers, auth_pc, auth_call, auth_ret, auth_calls,
          secrets, backup_codes, backup_file, codes_writer, backup_code_rate_limits, next_code, tf_pc, tf_call, tf_ret, tf_calls, tf_logins, consumed,
          config_file, fs_clock, current_config, last_modified, checksum, checksum_readers, watcher_pc, watcher_local, returned_config>>

NoPayout ==
    [id |-> 0, address |-> "none", amount_satoshis |-> 0, txid |-> "none",
     block_height |-> NoHeight, status |-> "none", confirmations |-> 0,
     error |-> "none"]

NoLocal ==
    [address |-> "none", amount |-> 0, id |-> 0, txid |-> "none",
     height |-> NoHeight, confirmations |-> 0, required |-> 0,
     payout |-> NoPayout, after |-> "none", buf |-> << >>, input |-> 0]

FreeLock == [w |-> 0, r |-> {}]

NoFile == [state |-> "absent", data |-> << >>]

CorruptFile == [state |-> "corrupt", data |-> << >>]

FileOf(data) == [state |-> "ok", data |-> data]

\* MinerBalance of a first earning (or_insert_with in add_earnings)
NewBalance(a) ==
    [address |-> a, balance_satoshis |-> 0, total_earned_satoshis |-> 0,
     total_paid_satoshis |-> 0]

\* mutant: a calculation of zeros is returned in place of None
NoCalc_Zero ==
    [some |-> TRUE, address |-> "none", worker |-> "none", share_count |-> 0,
     total_difficulty |-> 0, payout_satoshis |-> Zero, pplns_window_size |-> 0,
     block_reward_satoshis |-> Zero, pool_fee_satoshis |-> Zero,
     final_payout_satoshis |-> Zero]

\* None of Option<PayoutCalculation>
NoCalc ==
    [some |-> FALSE, address |-> "none", worker |-> "none", share_count |-> 0,
     total_difficulty |-> 0, payout_satoshis |-> Zero, pplns_window_size |-> 0,
     block_reward_satoshis |-> Zero, pool_fee_satoshis |-> Zero,
     final_payout_satoshis |-> Zero]

\* calculate_payout unwinds with an arithmetic overflow panic
PanicCalc == [NoCalc EXCEPT !.address = "panic"]

\* no simulate_payouts result: none asked for yet
NoValidation ==
    [valid |-> FALSE, total_shares |-> 0, unique_miners |-> 0, payouts |-> << >>,
     total_payout_satoshis |-> Zero, errors |-> << >>, warnings |-> << >>,
     state |-> "none"]

\* simulate_payouts unwinds with an arithmetic overflow panic
PanicValidation == [NoValidation EXCEPT !.state = "panic"]

\* no validate_* result: none asked for yet (days is the
\* expected_window_days the call was made with)
NoVerdict == [call |-> "none", days |-> 0, result |-> "none"]

\* PplnsSimulator::default()
DefaultSimulator ==
    [block_reward_satoshis |-> Sat(100000000), pool_fee_bps |-> 0,
     pplns_window_days |-> 7]

\* PaymentManager::new
InitPayment ==
    /\ balances = << >>
    /\ payouts = << >>
    /\ config = [required_confirmations |-> required_confirmations,
                 donation_bps |-> 0,
                 min_payout_satoshis |-> 1,
                 auto_payout_enabled |-> FALSE]
    /\ locks = [balances |-> FreeLock, payouts |-> FreeLock, config |-> FreeLock]
    /\ disk = [balances |-> NoFile, payouts |-> NoFile]
    /\ next_id = 1
    /\ sent = [i \in PayoutIds |-> 0]
    /\ pc = [p \in Procs |-> "idle"]
    /\ local = [p \in Procs |-> NoLocal]
    /\ ret = [p \in Procs |-> "none"]
    /\ faults = 0
    /\ calls = 0

\* no ConfigChangeRequest
NoRequest ==
    [id |-> 0, created_at |-> 0, expires_at |-> 0, confirmed |-> FALSE,
     applied |-> FALSE]

\* no ConfigConfirmation call was made yet
NoConfRet == [op |-> "none", id |-> 0, result |-> "none", request |-> NoRequest, removed |-> 0]

\* nothing was answered yet: the ids confirm_change answered Ok(true) for, the
\* number of Ok answers of apply_change per id, the ids cancel_change removed
NoHistory ==
    [confirmed |-> {}, applied |-> [i \in RequestIds |-> 0], cancelled |-> {},
     expires_at |-> [i \in RequestIds |-> 0]]

\* ConfigConfirmation::new
InitConfirmation ==
    /\ pending = << >>
    /\ utc_now = 0
    /\ next_request = 1
    /\ conf_ret = NoConfRet
    /\ history = NoHistory

\* no rate limit check is waiting
NoRateCall == [limiter |-> "none", ip |-> "none"]

\* RateLimiterState::new
InitRateLimit ==
    /\ api_request_times = << >>
    /\ login_request_times = << >>
    /\ instant = 0
    /\ rate_call = [p \in RateCallers |-> NoRateCall]
    /\ rate_ret = [p \in RateCallers |-> "none"]
    /\ accepted = [l \in Limiters |-> [ip \in Ips |-> << >>]]
    /\ rate_calls = 0

\* no process_auto_payouts call: state is where the call stands, todo the
\* (address, amount) pairs still to create, created the ids of the payouts
\* create_payout returned, queue the ids still to broadcast, attempts the ids
\* broadcast_payout was called for, mark the number of calls begun when the
\* next inner call may start, before the ledger when the call began
NoAuto ==
    [state |-> "none", enabled |-> FALSE, todo |-> << >>, created |-> << >>,
     queue |-> << >>, attempts |-> << >>, mark |-> 0,
     before |-> [balances |-> << >>, payouts |-> << >>, threshold |-> 0]]

\* AuditLogger::new with a log file: nothing logged, no file yet
InitAudit ==
    /\ audit_logs = << >>
    /\ audit_file = << >>
    /\ next_entry = 1

NoAuthCall == [op |-> "none", username |-> "", password |-> "", role |-> ""]
NoAuthRet == [result |-> "none", username |-> "", last_login |-> -1]

\* AuthManager::new: no users, nobody holds the lock
InitAuth ==
    /\ users = << >>
    /\ users_readers = {}
    /\ auth_pc = [p \in AuthCallers |-> "idle"]
    /\ auth_call = [p \in AuthCallers |-> NoAuthCall]
    /\ auth_ret = [p \in AuthCallers |-> NoAuthRet]
    /\ auth_calls = 0

NoTfCall == [op |-> "none", username |-> "", code |-> 0]
NoLimit == [attempts |-> 0, locked_until |-> -1]

\* TwoFactorManager::new: empty maps, no file, nobody holds a lock
InitTwoFactor ==
    /\ secrets = [u \in TfUsers |-> "none"]
    /\ backup_codes = [u \in TfUsers |-> {}]
    /\ backup_file = [u \in TfUsers |-> {}]
    /\ codes_writer = {}
    /\ backup_code_rate_limits = [u \in TfUsers |-> NoLimit]
    /\ next_code = 1
    /\ tf_pc = [p \in TfCallers |-> "idle"]
    /\ tf_call = [p \in TfCallers |-> NoTfCall]
    /\ tf_ret = [p \in TfCallers |-> "none"]
    /\ tf_calls = 0
    /\ tf_logins = [c \in BackupCodeChoices |-> 0]
    /\ consumed = {}

\* compute_checksum: a hash of the key values of the configuration
compute_checksum(cfg) == <<"hash", cfg.api_port>>

initial_config == [api_port |-> 8080, stats_dir |-> "stats"]
NoWatcherLocal == [new_config |-> initial_config, modified |-> 0]

\* ConfigReloader::new(config_path, initial_config), the file having been
\* written before, and start: the watcher waits for its first tick
InitReload ==
    /\ config_file = [content |-> initial_config, modified |-> 0]
    /\ fs_clock = 1
    /\ current_config = initial_config
    /\ last_modified = 1
    /\ checksum = compute_checksum(initial_config)
    /\ checksum_readers = {}
    /\ watcher_pc = "tick"
    /\ watcher_local = NoWatcherLocal
    /\ returned_config = initial_config

\* the admin services after construction
InitAdmin ==
    /\ InitConfirmation
    /\ InitRateLimit
    /\ InitAudit
    /\ InitAuth
    /\ InitTwoFactor
    /\ InitReload
    /\ auto = [p \in Procs |-> NoAuto]

\* PaymentManager::new, beside a default simulator with no window yet
Init ==
    /\ InitPayment
    /\ InitAdmin
    /\ shares = << >>
    /\ simulator = DefaultSimulator
    /\ calc = NoCalc
    /\ validation = NoValidation
    /\ verdict = NoVerdict

\* ------------------------------------------------------------------ locks
\* tokio::sync::RwLock::read can be granted
CanRead(l) == locks[l].w = 0

\* tokio::sync::RwLock::write can be granted
CanWrite(l) == locks[l].w = 0 /\ locks[l].r = {}

\* the guards a returning call drops
ReleaseAll(p) ==
    [l \in DOMAIN locks |->
        [w |-> IF locks[l].w = p THEN 0 ELSE locks[l].w, r |-> locks[l].r \ {p}]]

\* a call returns with result r: "Ok", or the message of the error it returns;
\* "panic" is the unwinding of an arithmetic overflow panic
Return(p, r) ==
    /\ pc' = [pc EXCEPT ![p] = "idle"]
    /\ local' = [local EXCEPT ![p] = NoLocal]
    /\ ret' = [ret EXCEPT ![p] = r]
    /\ locks' = ReleaseAll(p)

\* a call moves on to its next await point
Goto(p, where, loc) ==
    /\ pc' = [pc EXCEPT ![p] = where]
    /\ local' = [local EXCEPT ![p] = loc]
    /\ ret' = ret

\* positions of a payout id in a list (at most one)
IndexOf(list, id) == {i \in 1..Len(list) : list[i].id = id}

\* ----------------------------------------------------------- add_earnings
\* mutant: only the balance is increased
Earn_BalanceOnly(b, amount) == [b EXCEPT !.balance_satoshis = @ + amount]

\* the two += of add_earnings on one MinerBalance
Earn(b, amount) ==
    [b EXCEPT !.balance_satoshis = @ + amount,
              !.total_earned_satoshis = @ + amount]

\* earnings of address a that running add_earnings calls are about to add
InFlightEarnings(a) ==
    LET adding == {q \in Procs : pc[q] = "add_earnings" /\ local[q].address = a}
        F[S \in SUBSET Procs] ==
            IF S = {} THEN 0
            ELSE LET q == CHOOSE x \in S : TRUE IN local[q].amount + F[S \ {q}]
    IN  F[adding]

EarnedSoFar(a) == IF a \in DOMAIN balances THEN balances[a].total_earned_satoshis ELSE 0

BeginAddEarnings(p, a, amount, budget) ==
    /\ pc[p] = "idle"
    /\ calls < budget
    /\ calls' = calls + 1
    /\ EarnedSoFar(a) + InFlightEarnings(a) + amount <= MaxEarned
    /\ Goto(p, "add_earnings", [NoLocal EXCEPT !.address = a, !.amount = amount])
    /\ UNCHANGED <<balances, payouts, config, locks, disk, next_id, sent, faults,
                 pplns_vars, admin_vars>>

AddEarnings(p) ==
    /\ pc[p] = "add_earnings"
    /\ CanWrite("balances")
    /\ LET a == local[p].address
           amount == local[p].amount
           b == IF a \in DOMAIN balances THEN balances[a] ELSE NewBalance(a)
           inserted == [x \in DOMAIN balances \cup {a} |->
                           IF x = a THEN b ELSE balances[x]]
       IN  /\ IF AddOverflows(b.balance_satoshis, amount)
              THEN \/ /\ balances' = [inserted EXCEPT ![a] = Earn(b, amount)]
                      /\ Return(p, "Ok")
                   \/ /\ balances' = inserted
                      /\ Return(p, "panic")
              ELSE /\ balances' = [inserted EXCEPT ![a] = Earn(b, amount)]
                   /\ Return(p, "Ok")
    /\ UNCHANGED <<payouts, config, disk, next_id, sent, faults, calls,
                 pplns_vars, admin_vars>>

\* ------------------------------------------- get_balance, get_all_balances
BeginGetBalance(p, a) ==
    /\ pc[p] = "idle"
    /\ Goto(p, "get_balance", [NoLocal EXCEPT !.address = a])
    /\ UNCHANGED <<balances, payouts, config, locks, disk, next_id, sent, faults, calls,
                 pplns_vars, admin_vars>>

\* balances.read().await.get(address).cloned()
GetBalance(p) ==
    /\ pc[p] = "get_balance"
    /\ CanRead("balances")
    /\ Return(p, IF local[p].address \in DOMAIN balances THEN "Some" ELSE "None")
    /\ UNCHANGED <<balances, payouts, config, disk, next_id, sent, faults, calls,
                 pplns_vars, admin_vars>>

BeginGetAllBalances(p) ==
    /\ pc[p] = "idle"
    /\ Goto(p, "get_all_balances", NoLocal)
    /\ UNCHANGED <<balances, payouts, config, locks, disk, next_id, sent, faults, calls,
                 pplns_vars, admin_vars>>

\* balances.read().await.values().cloned().collect()
GetAllBalances(p) ==
    /\ pc[p] = "get_all_balances"
    /\ CanRead("balances")
    /\ Return(p, "Balances")
    /\ UNCHANGED <<balances, payouts, config, disk, next_id, sent, faults, calls,
                 pplns_vars, admin_vars>>

\* -------------------------------------------------------------- get_stats
BeginGetStats(p) ==
    /\ pc[p] = "idle"
    /\ Goto(p, "stats_payouts", NoLocal)
    /\ UNCHANGED <<balances, payouts, config, locks, disk, next_id, sent, faults, calls,
                 pplns_vars, admin_vars>>

\* self.payouts.read().await; the guard lives until get_stats returns
GetStatsPayouts(p) ==
    /\ pc[p] = "stats_payouts"
    /\ CanRead("payouts")
    /\ locks' = [locks EXCEPT !.payouts.r = @ \cup {p}]
    /\ Goto(p, "stats_balances", local[p])
    /\ UNCHANGED <<balances, payouts, config, disk, next_id, sent, faults, calls,
                 pplns_vars, admin_vars>>

\* self.balances.read().await, the sums, and the return of PaymentStats
GetStatsBalances(p) ==
    /\ pc[p] = "stats_balances"
    /\ CanRead("balances")
    /\ Return(p, "Stats")
    /\ UNCHANGED <<balances, payouts, config, disk, next_id, sent, faults, calls,
                 pplns_vars, admin_vars>>

\* ------------------------------------------------------------------- save
\* serde_json of Option<T>: null, or the value
OptionJson(x, none) == [null |-> x = none, value |-> x]

\* Option<T> of a JSON value
OptionFromJson(j, none) == IF j.null THEN none ELSE j.value

\* serde_json of a Payout (derive(Serialize)): one member per field, the
\* status as its variant name
PayoutJson(payout) ==
    [id |-> payout.id, address |-> payout.address,
     amount_satoshis |-> payout.amount_satoshis,
     txid |-> OptionJson(payout.txid, "none"),
     block_height |-> OptionJson(payout.block_height, NoHeight),
     status |-> payout.status, confirmations |-> payout.confirmations,
     error |-> OptionJson(payout.error, "none")]

\* a Payout of its JSON object (derive(Deserialize))
PayoutFromJson(j) ==
    [id |-> j.id, address |-> j.address, amount_satoshis |-> j.amount_satoshis,
     txid |-> OptionFromJson(j.txid, "none"),
     block_height |-> OptionFromJson(j.block_height, NoHeight),
     status |-> j.status, confirmations |-> j.confirmations,
     error |-> OptionFromJson(j.error, "none")]

\* to_vec_pretty of the payout list: a JSON array in list order
PayoutsJson(list) == [i \in 1..Len(list) |-> PayoutJson(list[i])]

\* mutant: the array is read back last element first
PayoutsFromJson_Reversed(j) == [i \in 1..Len(j) |-> PayoutFromJson(j[Len(j) + 1 - i])]

\* from_slice into Vec<Payout>: the elements in array order
PayoutsFromJson(j) == [i \in 1..Len(j) |-> PayoutFromJson(j[i])]

\* to_vec_pretty of the balance map: a JSON object with one member per key
BalancesJson(map) == [a \in DOMAIN map |-> map[a]]

\* from_slice into HashMap<String, MinerBalance>: keyed by the member names
BalancesFromJson(j) == [a \in DOMAIN j |-> j[a]]

\* what a file holds after File::create and write_all: written, File::create
\* failed (untouched), or write_all failed after the truncating create
WriteOutcomes(old, data) ==
    IF faults < MaxFaults THEN {FileOf(data), old, CorruptFile} ELSE {FileOf(data)}

\* balances.read(), serde_json::to_vec_pretty, drop of the guard
SaveBalances(p) ==
    /\ pc[p] = "save_balances"
    /\ CanRead("balances")
    /\ Goto(p, "write_balances", [local[p] EXCEPT !.buf = BalancesJson(balances)])
    /\ UNCHANGED <<balances, payouts, config, locks, disk, next_id, sent, faults, calls,
                 pplns_vars, admin_vars>>

\* File::create and write_all of balances.json
WriteBalances(p) ==
    /\ pc[p] = "write_balances"
    /\ \E f \in WriteOutcomes(disk.balances, local[p].buf) :
          /\ disk' = [disk EXCEPT !.balances = f]
          /\ IF f = FileOf(local[p].buf)
             THEN /\ Goto(p, "save_payouts", [local[p] EXCEPT !.buf = << >>])
                  /\ locks' = locks
                  /\ faults' = faults
             ELSE /\ Return(p, "balances file not written")
                  /\ faults' = faults + 1
    /\ UNCHANGED <<balances, payouts, config, next_id, sent, calls,
                 pplns_vars, admin_vars>>

\* payouts.read(), serde_json::to_vec_pretty, drop of the guard
SavePayouts(p) ==
    /\ pc[p] = "save_payouts"
    /\ CanRead("payouts")
    /\ Goto(p, "write_payouts", [local[p] EXCEPT !.buf = PayoutsJson(payouts)])
    /\ UNCHANGED <<balances, payouts, config, locks, disk, next_id, sent, faults, calls,
                 pplns_vars, admin_vars>>

\* File::create and write_all of payouts.json, then the return of the
\* operation that called save
WritePayouts(p) ==
    /\ pc[p] = "write_payouts"
    /\ \E f \in WriteOutcomes(disk.payouts, local[p].buf) :
          /\ disk' = [disk EXCEPT !.payouts = f]
          /\ IF f = FileOf(local[p].buf)
             THEN Return(p, local[p].after) /\ faults' = faults
             ELSE Return(p, "payouts file not written") /\ faults' = faults + 1
    /\ UNCHANGED <<balances, payouts, config, next_id, sent, calls,
                 pplns_vars, admin_vars>>

\* save called on its own
BeginSave(p, budget) ==
    /\ pc[p] = "idle"
    /\ calls < budget
    /\ calls' = calls + 1
    /\ Goto(p, "save_balances", [NoLocal EXCEPT !.after = "Saved"])
    /\ UNCHANGED <<balances, payouts, config, locks, disk, next_id, sent, faults,
                 pplns_vars, admin_vars>>

\* ---------------------------------------------------------- update_config
\* the configurations an operator sets: automatic payouts on or off, from a
\* minimum of 1 or 2 satoshis
ConfigChoices ==
    {[required_confirmations |-> required_confirmations, donation_bps |-> 0,
      min_payout_satoshis |-> m, auto_payout_enabled |-> e] :
        m \in {1, 2}, e \in BOOLEAN}

\* *self.config.write().await = config, the guard dropped with the statement;
\* then save
UpdateConfig(p, c, budget) ==
    /\ pc[p] = "idle"
    /\ calls < budget
    /\ calls' = calls + 1
    /\ CanWrite("config")
    /\ config' = c
    /\ Goto(p, "save_balances", [NoLocal EXCEPT !.after = "Ok"])
    /\ UNCHANGED <<balances, payouts, locks, disk, next_id, sent, faults,
                 pplns_vars, admin_vars>>

\* ------------------------------------------------- restart: new, then load
\* the process is stopped between two operations and started again:
\* PaymentManager::new, then load(), which reads each file that exists and
\* fails (and the start with it) on a file it cannot parse
Restart ==
    /\ \A p \in Procs : pc[p] = "idle"
    /\ disk.balances.state # "corrupt"
    /\ disk.payouts.state # "corrupt"
    /\ balances' = IF disk.balances.state = "ok"
                   THEN BalancesFromJson(disk.balances.data) ELSE << >>
    /\ payouts' = IF disk.payouts.state = "ok"
                  THEN PayoutsFromJson(disk.payouts.data) ELSE << >>
    /\ locks' = [l \in DOMAIN locks |-> FreeLock]
    /\ ret' = [p \in Procs |-> "Loaded"]
    /\ UNCHANGED <<config, disk, next_id, sent, pc, local, faults, calls,
                 pplns_vars, admin_vars>>

\* ---------------------------------------------------------- create_payout
\* mutant: the balance test lets an amount of balance + 1 through
InsufficientBalance_OffByOne(b, amount) == U64Lt(b.balance_satoshis + 1, amount)

\* the balance test of create_payout
InsufficientBalance(b, amount) == U64Lt(b.balance_satoshis, amount)

\* the Payout create_payout builds
NewPayout(id, a, amount) ==
    [id |-> id, address |-> a, amount_satoshis |-> amount, txid |-> "none",
     block_height |-> NoHeight, status |-> "Pending", confirmations |-> 0,
     error |-> "none"]

\* mutant: the new record is not pushed
PushTrim_NoPush(list, payout) == list

\* push, then drain the oldest records beyond max_payouts
PushTrim(list, payout) ==
    LET pushed == Append(list, payout)
    IN  IF Len(pushed) > max_payouts
        THEN SubSeq(pushed, Len(pushed) - max_payouts + 1, Len(pushed))
        ELSE pushed

\* create_payout calls that have not yet drawn their id
InFlightCreates == Cardinality({q \in Procs : pc[q] \in {"create_check", "create_debit"}})

BeginCreatePayout(p, a, amount, budget) ==
    /\ pc[p] = "idle"
    /\ calls < budget
    /\ calls' = calls + 1
    /\ next_id + InFlightCreates <= MaxPayoutIds
    /\ Goto(p, "create_check", [NoLocal EXCEPT !.address = a, !.amount = amount])
    /\ UNCHANGED <<balances, payouts, config, locks, disk, next_id, sent, faults,
                 pplns_vars, admin_vars>>

CreateCheck(p) ==
    /\ pc[p] = "create_check"
    /\ CanRead("balances")
    /\ LET a == local[p].address
       IN  IF a \notin DOMAIN balances
           THEN Return(p, "No balance found")
           ELSE IF InsufficientBalance(balances[a], local[p].amount)
                THEN Return(p, "Insufficient balance")
                ELSE Goto(p, "create_debit", local[p]) /\ locks' = locks
    /\ UNCHANGED <<balances, payouts, config, disk, next_id, sent, faults, calls,
                 pplns_vars, admin_vars>>

CreateDebit(p) ==
    /\ pc[p] = "create_debit"
    /\ CanWrite("balances")
    /\ LET a == local[p].address
           amount == local[p].amount
           payout == NewPayout(next_id, a, amount)
           debited == IF a \in DOMAIN balances
                      THEN [balances EXCEPT ![a].balance_satoshis = @ - amount]
                      ELSE balances
       IN  IF a \in DOMAIN balances /\ SubOverflows(balances[a].balance_satoshis, amount)
           THEN \/ /\ balances' = debited
                   /\ next_id' = next_id + 1
                   /\ Goto(p, "create_push", [local[p] EXCEPT !.payout = payout])
                   /\ locks' = locks
                \/ /\ UNCHANGED <<balances, next_id>>
                   /\ Return(p, "panic")
           ELSE /\ balances' = debited
                /\ next_id' = next_id + 1
                /\ Goto(p, "create_push", [local[p] EXCEPT !.payout = payout])
                /\ locks' = locks
    /\ UNCHANGED <<payouts, config, disk, sent, faults, calls,
                 pplns_vars, admin_vars>>

CreatePush(p) ==
    /\ pc[p] = "create_push"
    /\ CanWrite("payouts")
    /\ payouts' = PushTrim(payouts, local[p].payout)
    /\ Goto(p, "save_balances", [local[p] EXCEPT !.after = "Ok"])
    /\ UNCHANGED <<balances, config, locks, disk, next_id, sent, faults, calls,
                 pplns_vars, admin_vars>>

\* ------------------------------------------------------- broadcast_payout
\* (utxo.amount * 100_000_000.0) as u64, the amount being given in tenths of
\* a satoshi: the cast truncates the fraction
ToSatoshis(amount) == amount \div 10

\* amounts (BTC as f64, here in tenths of a satoshi) of the node's UTXOs
UtxoAmounts == {10, 5489, 5490}

\* what list_unspent can answer: lists of up to two UTXOs
UnspentLists ==
    {<< >>} \cup {<<x>> : x \in UtxoAmounts}
            \cup {<<x, y>> : x \in UtxoAmounts, y \in UtxoAmounts}

\* *p = payout.clone() on the record with that id, if it is still there
Replace(list, payout) ==
    [i \in 1..Len(list) |-> IF list[i].id = payout.id THEN payout ELSE list[i]]

\* fee_estimate of broadcast_payout
FeeEstimate == config.donation_bps

\* actual_change of broadcast_payout for an input and a payout amount
ActualChange(total_input, amount) == SaturatingSub(total_input - amount, FeeEstimate)

\* the dust test of broadcast_payout
BelowDust(change) == U64Lt(change, DustLimit)

\* mutant: only a Broadcast or Confirmed payout is refused
NotPending_FailedPasses(payout) == payout.status \in {"Broadcast", "Confirmed"}

\* the status test of broadcast_payout
NotPending(payout) == payout.status # "Pending"

BeginBroadcast(p, id, budget) ==
    /\ pc[p] = "idle"
    /\ calls < budget
    /\ calls' = calls + 1
    /\ sent[id] < MaxSent
    /\ CanRead("config")
    /\ locks' = [locks EXCEPT !.config.r = @ \cup {p}]
    /\ Goto(p, "bc_find", [NoLocal EXCEPT !.id = id])
    /\ UNCHANGED <<balances, payouts, config, disk, next_id, sent, faults,
                 pplns_vars, admin_vars>>

\* mutant: the payouts read guard of the lookup lives on after the block
GuardsAfterFind_KeepsPayouts(p) == [locks EXCEPT !.payouts.r = @ \cup {p}]

\* the guards broadcast_payout holds once the lookup block is left: the
\* payouts read guard is dropped with the block, the config guard stays
GuardsAfterFind(p) == locks

BroadcastFind(p) ==
    /\ pc[p] = "bc_find"
    /\ CanRead("payouts")
    /\ LET found == IndexOf(payouts, local[p].id)
       IN  IF found = {}
           THEN Return(p, "Payout not found")
           ELSE LET payout == payouts[CHOOSE i \in found : TRUE]
                IN  IF NotPending(payout)
                    THEN Return(p, "Payout is not pending")
                    ELSE /\ Goto(p, "bc_list_unspent", [local[p] EXCEPT !.payout = payout])
                         /\ locks' = GuardsAfterFind(p)
    /\ UNCHANGED <<balances, payouts, config, disk, next_id, sent, faults, calls,
                 pplns_vars, admin_vars>>

\* list_unspent answered with an error
ListUnspentError(p) ==
    /\ pc[p] = "bc_list_unspent"
    /\ Return(p, "Failed to get unspent outputs")
    /\ UNCHANGED <<balances, payouts, config, disk, next_id, sent, faults, calls,
                 pplns_vars, admin_vars>>

\* list_unspent answered with a list
ListUnspent(p, unspent) ==
    /\ pc[p] = "bc_list_unspent"
    /\ Goto(p, "bc_select", [local[p] EXCEPT !.buf = unspent])
    /\ UNCHANGED <<balances, payouts, config, locks, disk, next_id, sent, faults, calls,
                 pplns_vars, admin_vars>>

\* the code after list_unspent up to the next await: the empty-wallet
\* branch, or input selection, change and the dust test
SelectInput(p) ==
    /\ pc[p] = "bc_select"
    /\ LET payout == local[p].payout
           unspent == local[p].buf
       IN  IF unspent = << >>
           THEN /\ Goto(p, "bc_mark_failed",
                        [local[p] EXCEPT !.payout =
                            [payout EXCEPT !.status = "Failed",
                                           !.error = "No unspent outputs available in wallet"]])
                /\ locks' = locks
           ELSE LET total_input == ToSatoshis(unspent[1])
                    change == ActualChange(total_input, payout.amount_satoshis)
                    checked == IF BelowDust(change)
                               THEN Return(p, "Amount too small after fees")
                               ELSE /\ Goto(p, "bc_create_raw",
                                            [local[p] EXCEPT !.amount = change,
                                                             !.input = total_input,
                                                             !.buf = << >>])
                                    /\ locks' = locks
                IN  IF SubOverflows(total_input, payout.amount_satoshis)
                    THEN checked \/ Return(p, "panic")
                    ELSE checked
    /\ UNCHANGED <<balances, payouts, config, disk, next_id, sent, faults, calls,
                 pplns_vars, admin_vars>>

MarkFailed(p) ==
    /\ pc[p] = "bc_mark_failed"
    /\ CanWrite("payouts")
    /\ payouts' = Replace(payouts, local[p].payout)
    /\ Goto(p, "save_balances", [local[p] EXCEPT !.after = "No unspent outputs available"])
    /\ UNCHANGED <<balances, config, locks, disk, next_id, sent, faults, calls,
                 pplns_vars, admin_vars>>

\* create_raw_transaction: an error of the node, or the raw transaction
CreateRaw(p, ok) ==
    /\ pc[p] = "bc_create_raw"
    /\ IF ok THEN Goto(p, "bc_sign", local[p]) /\ locks' = locks
             ELSE Return(p, "Failed to create raw transaction")
    /\ UNCHANGED <<balances, payouts, config, disk, next_id, sent, faults, calls,
                 pplns_vars, admin_vars>>

\* sign_raw_transaction_with_wallet: "error", "incomplete" or "complete"
Sign(p, answer) ==
    /\ pc[p] = "bc_sign"
    /\ IF answer = "complete"
       THEN Goto(p, "bc_send", local[p]) /\ locks' = locks
       ELSE Return(p, IF answer = "incomplete" THEN "Transaction signing incomplete"
                                               ELSE "Failed to sign transaction")
    /\ UNCHANGED <<balances, payouts, config, disk, next_id, sent, faults, calls,
                 pplns_vars, admin_vars>>

\* send_raw_transaction: rejected, or accepted by the node with a txid
Send(p, ok, txid) ==
    /\ pc[p] = "bc_send"
    /\ IF ok
       THEN /\ sent' = [sent EXCEPT ![local[p].id] = @ + 1]
            /\ Goto(p, "bc_mark_broadcast",
                    [local[p] EXCEPT !.payout =
                        [local[p].payout EXCEPT !.txid = txid, !.status = "Broadcast"]])
            /\ locks' = locks
       ELSE /\ sent' = sent
            /\ Return(p, "Failed to broadcast transaction")
    /\ UNCHANGED <<balances, payouts, config, disk, next_id, faults, calls,
                 pplns_vars, admin_vars>>

MarkBroadcast(p) ==
    /\ pc[p] = "bc_mark_broadcast"
    /\ CanWrite("payouts")
    /\ payouts' = Replace(payouts, local[p].payout)
    /\ Goto(p, "save_balances", [local[p] EXCEPT !.after = "Ok"])
    /\ UNCHANGED <<balances, config, locks, disk, next_id, sent, faults, calls,
                 pplns_vars, admin_vars>>

\* --------------------------------------------------------- confirm_payout
\* mutant: the threshold test is > instead of >=
Confirmed_StrictThreshold(payout, txid, height, confirmations, required) ==
    [payout EXCEPT !.txid = txid,
                   !.block_height = height,
                   !.confirmations = confirmations,
                   !.status = IF confirmations > required THEN "Confirmed" ELSE @]

\* the fields confirm_payout writes into the payout it found
Confirmed(payout, txid, height, confirmations, required) ==
    [payout EXCEPT !.txid = txid,
                   !.block_height = height,
                   !.confirmations = confirmations,
                   !.status = IF confirmations >= required THEN "Confirmed" ELSE @]

\* total_paid of the address of payout id, were it confirmed once more
PaidAfter(id) ==
    LET found == IndexOf(payouts, id)
        payout == payouts[CHOOSE i \in found : TRUE]
    IN  IF found = {} \/ payout.address \notin DOMAIN balances THEN 0
        ELSE balances[payout.address].total_paid_satoshis + payout.amount_satoshis

BeginConfirm(p, id, txid, height, confirmations, budget) ==
    /\ pc[p] = "idle"
    /\ calls < budget
    /\ calls' = calls + 1
    /\ PaidAfter(id) <= MaxPaid
    /\ CanRead("config")
    /\ Goto(p, "confirm_mark",
            [NoLocal EXCEPT !.id = id, !.txid = txid, !.height = height,
                            !.confirmations = confirmations,
                            !.required = config.required_confirmations])
    /\ UNCHANGED <<balances, payouts, config, locks, disk, next_id, sent, faults,
                 pplns_vars, admin_vars>>

\* payouts.write(), the search, and the updates of the payout record; the
\* write guard lives until the function returns
ConfirmMark(p) ==
    /\ pc[p] = "confirm_mark"
    /\ CanWrite("payouts")
    /\ LET found == IndexOf(payouts, local[p].id)
       IN  IF found = {}
           THEN Return(p, "Ok") /\ payouts' = payouts
           ELSE LET i == CHOOSE x \in found : TRUE
                    l == local[p]
                IN  /\ payouts' = [payouts EXCEPT ![i] =
                          Confirmed(@, l.txid, l.height, l.confirmations, l.required)]
                    /\ locks' = [locks EXCEPT !.payouts.w = p]
                    /\ Goto(p, IF l.confirmations >= l.required
                               THEN "confirm_paid" ELSE "save_balances",
                            [l EXCEPT !.payout = payouts[i], !.after = "Ok"])
    /\ UNCHANGED <<balances, config, disk, next_id, sent, faults, calls,
                 pplns_vars, admin_vars>>

\* balances.write() inside the payouts write section, and total_paid +=
ConfirmPaid(p) ==
    /\ pc[p] = "confirm_paid"
    /\ CanWrite("balances")
    /\ LET a == local[p].payout.address
       IN  balances' = IF a \in DOMAIN balances
                       THEN [balances EXCEPT ![a].total_paid_satoshis =
                                @ + local[p].payout.amount_satoshis]
                       ELSE balances
    /\ Goto(p, "save_balances", local[p])
    /\ UNCHANGED <<payouts, config, locks, disk, next_id, sent, faults, calls,
                 pplns_vars, admin_vars>>

\* --------------------------------------------------- process_auto_payouts
\* no process_auto_payouts call of p is under way
AutoIdle(p) == auto[p].state \in {"none", "returned", "panicked"}

\* the orders in which a HashMap can be iterated: the sequences of the
\* elements of S without repetition
AutoOrders(S) ==
    {o \in [1..Cardinality(S) -> S] : \A i, j \in DOMAIN o : i # j => o[i] # o[j]}

\* config.read() and the test of auto_payout_enabled: Ok(Vec::new()) when it
\* is off
BeginAuto(p, budget) ==
    /\ pc[p] = "idle"
    /\ AutoIdle(p)
    /\ calls < budget
    /\ CanRead("config")
    /\ auto' = [auto EXCEPT ![p] =
          [NoAuto EXCEPT !.state = IF config.auto_payout_enabled
                                   THEN "pending" ELSE "returned",
                         !.enabled = config.auto_payout_enabled,
                         !.mark = calls,
                         !.before = [balances |-> balances, payouts |-> payouts,
                                     threshold |-> config.min_payout_satoshis]]]
    /\ UNCHANGED beside_auto

\* get_pending_payouts: the addresses whose balance is at least
\* min_payout_satoshis, each with its balance, in the order of the map
AutoPending(p) ==
    /\ auto[p].state = "pending"
    /\ CanRead("config")
    /\ CanRead("balances")
    /\ LET above == {a \in DOMAIN balances :
                        ~U64Lt(balances[a].balance_satoshis, config.min_payout_satoshis)}
       IN  \E o \in AutoOrders(above) :
              auto' = [auto EXCEPT ![p].state = IF above = {} THEN "returned"
                                                ELSE "creating",
                                   ![p].todo = [i \in DOMAIN o |->
                                       [address |-> o[i],
                                        amount |-> balances[o[i]].balance_satoshis]]]
    /\ UNCHANGED beside_auto

\* the first loop calls create_payout for the next pair
AutoCreate(p, budget) ==
    /\ auto[p].state = "creating"
    /\ calls = auto[p].mark
    /\ BeginCreatePayout(p, Head(auto[p].todo).address, Head(auto[p].todo).amount,
                         budget)

\* create_payout has returned: the payout is kept when it returned Ok, the
\* error is only reported otherwise; a panic ends process_auto_payouts
AutoCreated(p) ==
    /\ auto[p].state = "creating"
    /\ pc[p] = "idle"
    /\ calls = auto[p].mark + 1
    /\ LET f == auto[p]
           created == IF ret[p] = "Ok" THEN Append(f.created, next_id - 1)
                      ELSE f.created
           todo == Tail(f.todo)
       IN  auto' = [auto EXCEPT ![p] =
              IF ret[p] = "panic" THEN [f EXCEPT !.state = "panicked"]
              ELSE [f EXCEPT !.state = IF todo # << >> THEN "creating"
                                       ELSE IF created = << >> THEN "returned"
                                       ELSE "broadcasting",
                             !.todo = todo, !.created = created, !.queue = created,
                             !.mark = calls]]
    /\ UNCHANGED beside_auto

\* the second loop calls broadcast_payout for the next created payout
AutoBroadcast(p, budget) ==
    /\ auto[p].state = "broadcasting"
    /\ calls = auto[p].mark
    /\ BeginBroadcast(p, Head(auto[p].queue), budget)

\* broadcast_payout has returned: an error is only reported; a panic ends
\* process_auto_payouts; after the last payout Ok(created) is returned
AutoBroadcasted(p) ==
    /\ auto[p].state = "broadcasting"
    /\ pc[p] = "idle"
    /\ calls = auto[p].mark + 1
    /\ LET f == auto[p]
           queue == Tail(f.queue)
       IN  auto' = [auto EXCEPT ![p] =
              [f EXCEPT !.state = IF ret[p] = "panic" THEN "panicked"
                                  ELSE IF queue # << >> THEN "broadcasting"
                                  ELSE "returned",
                        !.queue = queue,
                        !.attempts = Append(f.attempts, Head(f.queue)),
                        !.mark = calls]]
    /\ UNCHANGED beside_auto

\* ------------------------------------------------------------------- next
\* a caller starts an operation on addresses AS
Call(p, AS, budget) ==
    \/ \E a \in AS, amount \in Amounts : BeginAddEarnings(p, a, amount, budget)
    \/ \E a \in AS, amount \in Amounts : BeginCreatePayout(p, a, amount, budget)
    \/ \E id \in PayoutIds : BeginBroadcast(p, id, budget)
    \/ \E id \in PayoutIds, txid \in Txids, height \in Heights, c \in ConfChoices :
          BeginConfirm(p, id, txid, height, c, budget)

\* a running operation goes on to its next await point
Step(p) ==
    \/ AddEarnings(p)
    \/ CreateCheck(p)
    \/ CreateDebit(p)
    \/ CreatePush(p)
    \/ SaveBalances(p)
    \/ WriteBalances(p)
    \/ SavePayouts(p)
    \/ WritePayouts(p)
    \/ BroadcastFind(p)
    \/ ListUnspentError(p)
    \/ \E unspent \in UnspentLists : ListUnspent(p, unspent)
    \/ SelectInput(p)
    \/ MarkFailed(p)
    \/ \E ok \in BOOLEAN : CreateRaw(p, ok)
    \/ \E answer \in {"error", "incomplete", "complete"} : Sign(p, answer)
    \/ \E ok \in BOOLEAN, txid \in Txids : Send(p, ok, txid)
    \/ MarkBroadcast(p)
    \/ ConfirmMark(p)
    \/ ConfirmPaid(p)

\* one caller at a time, any address
Next ==
    \/ Call(1, Addrs, MaxCalls)
    \/ Step(1)

Spec == Init /\ [][Next]_vars

\* concurrent callers on one address, MaxConcCalls calls in all
NextConc ==
    \E p \in Procs :
        \/ Call(p, {"a1"}, MaxConcCalls)
        \/ Step(p)

SpecConc == Init /\ [][NextConc]_vars

\* caller 1 runs the mutating operations, caller 2 reads balances meanwhile
NextReads ==
    \/ Call(1, {"a1"}, MaxCalls)
    \/ Step(1)
    \/ \E a \in Addrs : BeginGetBalance(2, a)
    \/ GetBalance(2)
    \/ BeginGetAllBalances(2)
    \/ GetAllBalances(2)

SpecReads == Init /\ [][NextReads]_vars

\* caller 1 runs the mutating operations, caller 2 asks for the statistics
NextStats ==
    \/ Call(1, {"a1"}, MaxCalls)
    \/ Step(1)
    \/ BeginGetStats(2)
    \/ GetStatsPayouts(2)
    \/ GetStatsBalances(2)

SpecStats == Init /\ [][NextStats]_vars

\* caller 1 earns and creates payouts on one address while caller 2 updates
\* the configuration, each with its save
NextSnapshot ==
    \/ \E amount \in Amounts : BeginAddEarnings(1, "a1", amount, MaxCalls)
    \/ AddEarnings(1)
    \/ \E amount \in Amounts : BeginCreatePayout(1, "a1", amount, MaxCalls)
    \/ CreateCheck(1)
    \/ CreateDebit(1)
    \/ CreatePush(1)
    \/ \E c \in ConfigChoices : UpdateConfig(2, c, MaxCalls)
    \/ \E p \in Procs : SaveBalances(p)
    \/ \E p \in Procs : WriteBalances(p)
    \/ \E p \in Procs : SavePayouts(p)
    \/ \E p \in Procs : WritePayouts(p)

SpecSnapshot == Init /\ [][NextSnapshot]_vars

\* one caller: earnings, configuration updates and process_auto_payouts
NextAuto ==
    \/ \E a \in Addrs, amount \in Amounts :
          AutoIdle(1) /\ BeginAddEarnings(1, a, amount, MaxAutoCalls)
    \/ AddEarnings(1)
    \/ \E c \in ConfigChoices : AutoIdle(1) /\ UpdateConfig(1, c, MaxAutoCalls)
    \/ BeginAuto(1, MaxAutoCalls)
    \/ AutoPending(1)
    \/ AutoCreate(1, MaxAutoCalls)
    \/ AutoCreated(1)
    \/ AutoBroadcast(1, MaxAutoCalls)
    \/ AutoBroadcasted(1)
    \/ CreateCheck(1)
    \/ CreateDebit(1)
    \/ CreatePush(1)
    \/ SaveBalances(1)
    \/ WriteBalances(1)
    \/ SavePayouts(1)
    \/ WritePayouts(1)
    \/ BroadcastFind(1)
    \/ ListUnspentError(1)
    \/ \E unspent \in UnspentLists : ListUnspent(1, unspent)
    \/ SelectInput(1)
    \/ MarkFailed(1)
    \/ \E ok \in BOOLEAN : CreateRaw(1, ok)
    \/ \E answer \in {"error", "incomplete", "complete"} : Sign(1, answer)
    \/ \E ok \in BOOLEAN, txid \in Txids : Send(1, ok, txid)
    \/ MarkBroadcast(1)

SpecAuto == Init /\ [][NextAuto]_vars

\* one caller, with save called on its own and restarts between operations
NextPersist ==
    \/ Call(1, Addrs, MaxCalls)
    \/ Step(1)
    \/ BeginSave(1, MaxCalls)
    \/ Restart

SpecPersist == Init /\ [][NextPersist]_vars

\* add_earnings and create_payout only, one caller at a time
NextLedger ==
    \/ \E a \in Addrs, amount \in Amounts : BeginAddEarnings(1, a, amount, MaxLedgerCalls)
    \/ AddEarnings(1)
    \/ \E a \in Addrs, amount \in Amounts : BeginCreatePayout(1, a, amount, MaxLedgerCalls)
    \/ CreateCheck(1)
    \/ CreateDebit(1)
    \/ CreatePush(1)
    \/ SaveBalances(1)
    \/ WriteBalances(1)
    \/ SavePayouts(1)
    \/ WritePayouts(1)

SpecLedger == Init /\ [][NextLedger]_vars

\* ================================================================ PPLNS
\* Model of PplnsSimulator (src/src/pplns_validator/mod.rs).  A share is a
\* SimplePplnsShare reduced to the fields the simulator reads.
ShareChoices ==
    {[btcaddress |-> "X", workername |-> "w1", difficulty |-> 1000, n_time |-> 0],
     [btcaddress |-> "X", workername |-> "none", difficulty |-> 2000, n_time |-> 0],
     [btcaddress |-> "Y", workername |-> "w2", difficulty |-> 1500, n_time |-> 0],
     [btcaddress |-> "Z", workername |-> "w3", difficulty |-> 500, n_time |-> 0],
     [btcaddress |-> "Z", workername |-> "w3", difficulty |-> 0, n_time |-> 0],
     [btcaddress |-> "none", workername |-> "none", difficulty |-> 1000, n_time |-> 0]}

\* the addresses a payout is asked for
Miners == {"X", "Y", "Z", "W"}

\* PplnsSimulator::new(block_reward_satoshis, pool_fee_bps, pplns_window_days)
Simulators ==
    {[block_reward_satoshis |-> Sat(r), pool_fee_bps |-> f, pplns_window_days |-> 7] :
        r \in {7, 100000, 100000000}, f \in {0, 100, 3333, 10000}}

RECURSIVE SumDifficulty(_)
\* iter().map(|s| s.difficulty).sum(), as a wrapping sum (the negative
\* representatives of the u64 helpers stand for the values just below 2^64)
SumDifficulty(list) ==
    IF list = << >> THEN 0 ELSE Head(list).difficulty + SumDifficulty(Tail(list))

RECURSIVE SumOverflowsFrom(_, _)
\* adding the difficulties of list to acc, one after the other, leaves u64
SumOverflowsFrom(acc, list) ==
    /\ list # << >>
    /\ \/ AddOverflows(acc, Head(list).difficulty)
       \/ SumOverflowsFrom(acc + Head(list).difficulty, Tail(list))

\* iter().map(|s| s.difficulty).sum() leaves u64
SumOverflows(list) == SumOverflowsFrom(0, list)

\* mutant: the division is done before the multiplication
MulDiv_DivideFirst(a, b, c) == Times(Over(a, c), b)

\* (a as u128) * (b as u128) / (c as u128) for an amount a and u64 b, c with
\* c # 0.  Equal b and c cancel, whatever their size; a c just below 2^64
\* with a small b gives 0, the product being below c; a b just below 2^64
\* with another c is not covered (no window of the model leads there).
MulDiv(a, b, c) ==
    IF b = c THEN a
    ELSE IF c < 0 THEN Zero
    ELSE Over(Times(a, b), c)

\* the shares of the window that carry the address
MinerShares(window, miner_address) ==
    SelectSeq(window, LAMBDA s : s.btcaddress = miner_address)

\* PplnsSimulator::calculate_payout, the two u64 sums wrapping
calculate_payout(window, miner_address) ==
    LET miner_shares == MinerShares(window, miner_address)
        total_difficulty == SumDifficulty(miner_shares)
        window_difficulty == SumDifficulty(window)
        proportional_payout ==
            MulDiv(simulator.block_reward_satoshis, total_difficulty, window_difficulty)
        pool_fee == MulDiv(proportional_payout, simulator.pool_fee_bps, 10000)
        final_payout ==
            Least(IF Less(proportional_payout, pool_fee) THEN Zero
                  ELSE Minus(proportional_payout, pool_fee), U64Max)
    IN  IF window = << >> THEN NoCalc
        ELSE IF miner_shares = << >> THEN NoCalc
        ELSE IF window_difficulty = 0 THEN NoCalc
        ELSE [some |-> TRUE,
              address |-> miner_address,
              worker |-> IF Head(miner_shares).workername = "none" THEN "unknown"
                         ELSE Head(miner_shares).workername,
              share_count |-> Len(miner_shares),
              total_difficulty |-> total_difficulty,
              payout_satoshis |-> Least(proportional_payout, U64Max),
              pplns_window_size |-> Len(window),
              block_reward_satoshis |-> simulator.block_reward_satoshis,
              pool_fee_satoshis |-> Least(pool_fee, U64Max),
              final_payout_satoshis |-> final_payout]

\* one of the two sums of calculate_payout leaves u64: the call panics where
\* overflow checks are compiled in, and goes on with the wrapped sum elsewhere
CalcOverflows(window, miner_address) ==
    /\ window # << >>
    /\ MinerShares(window, miner_address) # << >>
    /\ \/ SumOverflows(MinerShares(window, miner_address))
       \/ SumOverflows(window)

\* mutant: a share without address counts as a miner of its own
UniqueMiners_WithNone(window) == {window[i].btcaddress : i \in 1..Len(window)}

\* the addresses simulate_payouts collects in unique_miners
UniqueMiners(window) ==
    {window[i].btcaddress : i \in 1..Len(window)} \ {"none"}

\* the orders in which a HashSet<String> may hand out its elements
Orders(S) ==
    {f \in [1..Cardinality(S) -> S] : \A i, j \in 1..Cardinality(S) : f[i] = f[j] => i = j}

RECURSIVE TotalPayout(_)
\* total_payout after the += of every pushed payout, before any wrapping
TotalPayout(list) ==
    IF list = << >> THEN Zero
    ELSE Plus(Head(list).final_payout_satoshis, TotalPayout(Tail(list)))

\* mutant: a total equal to the available reward is reported too
Exceeds_OrEqual(total, expected) == ~Less(total, expected)

\* total_payout > expected_total_payout
Exceeds(total, expected) == Less(expected, total)

\* mutant: the payout before the fee is looked at
ZeroPaid_BeforeFee(c) == c.payout_satoshis = Zero /\ c.share_count > 0

\* payout.final_payout_satoshis == 0 && payout.share_count > 0
ZeroPaid(c) == c.final_payout_satoshis = Zero /\ c.share_count > 0

\* PplnsSimulator::simulate_payouts, the miners taken in the given order;
\* checked tells whether overflow checks are compiled in
\* self.block_reward_satoshis * self.pool_fee_bps as u64, before it is cut
\* to 64 bits
FeeProduct == Times(simulator.block_reward_satoshis, simulator.pool_fee_bps)

\* expected_total_payout of simulate_payouts: the u64 product, divided, and
\* a saturating subtraction
expected_total_payout ==
    LET reward == simulator.block_reward_satoshis
        fee == Over(WrapU64(FeeProduct), 10000)
    IN  IF Less(reward, fee) THEN Zero ELSE Minus(reward, fee)

simulate_payouts(window, order, checked) ==
    LET calcs == [i \in 1..Len(order) |-> calculate_payout(window, order[i])]
        pushed == SelectSeq(calcs, LAMBDA c : c.some)
        total == TotalPayout(pushed)
        total_payout == WrapU64(total)
        errors == IF Exceeds(total_payout, expected_total_payout)
                  THEN <<"Total payouts exceed available reward">> ELSE << >>
        zero_paid == SelectSeq(pushed, ZeroPaid)
        warnings == [i \in 1..Len(zero_paid) |-> zero_paid[i].address]
        overflows == \/ \E i \in 1..Len(order) : CalcOverflows(window, order[i])
                     \/ Less(U64Max, total)
                     \/ SumOverflows(window)
                     \/ Less(U64Max, FeeProduct)
    IN  IF checked /\ overflows THEN PanicValidation
        ELSE [valid |-> errors = << >>,
              total_shares |-> Len(window),
              unique_miners |-> Len(order),
              payouts |-> pushed,
              total_payout_satoshis |-> total_payout,
              errors |-> errors,
              warnings |-> warnings,
              state |-> "returned"]

\* a simulator is built for a reward and a fee
InitPplns ==
    /\ InitPayment
    /\ InitAdmin
    /\ shares = << >>
    /\ simulator \in Simulators
    /\ calc = NoCalc
    /\ validation = NoValidation
    /\ verdict = NoVerdict

\* the share store hands over a window that is one share longer
PushShare(share) ==
    /\ Len(shares) < MaxShares
    /\ shares' = Append(shares, share)
    /\ calc' = NoCalc
    /\ validation' = NoValidation
    /\ verdict' = NoVerdict
    /\ UNCHANGED <<simulator, payment_vars, admin_vars>>

\* no call has been made on the window yet: a call is made on a window, and
\* what it returns is kept until the next window comes
Fresh == calc = NoCalc /\ validation = NoValidation /\ verdict = NoVerdict

\* calculate_payout(&shares, miner_address)
CalculatePayout(miner_address) ==
    /\ Fresh
    /\ \/ calc' = calculate_payout(shares, miner_address)
       \/ CalcOverflows(shares, miner_address) /\ calc' = PanicCalc
    /\ UNCHANGED <<shares, simulator, validation, verdict, payment_vars, admin_vars>>

\* simulate_payouts(&shares)
SimulatePayouts ==
    /\ Fresh
    /\ \E order \in Orders(UniqueMiners(shares)) :
           \/ validation' = simulate_payouts(shares, order, FALSE)
           \/ /\ simulate_payouts(shares, order, TRUE) = PanicValidation
              /\ validation' = PanicValidation
    /\ UNCHANGED <<shares, simulator, calc, verdict, payment_vars, admin_vars>>

NextPplns ==
    \/ \E share \in ShareChoices : PushShare(share)
    \/ \E a \in Miners : CalculatePayout(a)
    \/ SimulatePayouts

SpecPplns == InitPplns /\ [][NextPplns]_vars

\* ------------------------------------------- validate_difficulty_bounds
\* shares around the ratio of 1000
BoundsShareChoices ==
    {[btcaddress |-> "X", workername |-> "w1", difficulty |-> d, n_time |-> 0] :
        d \in {0, 1, 2, 1000, 1001, 2001}}

\* shares.iter().map(|s| s.difficulty).min()
MinDifficulty(window) ==
    CHOOSE d \in {window[i].difficulty : i \in 1..Len(window)} :
        \A i \in 1..Len(window) : d <= window[i].difficulty

\* shares.iter().map(|s| s.difficulty).max()
MaxDifficulty(window) ==
    CHOOSE d \in {window[i].difficulty : i \in 1..Len(window)} :
        \A i \in 1..Len(window) : d >= window[i].difficulty

\* PplnsSimulator::validate_difficulty_bounds: Ok, or the message of the Err
validate_difficulty_bounds(window) ==
    IF window = << >> THEN "No shares to validate"
    ELSE IF MinDifficulty(window) = 0 THEN "Found share with zero difficulty"
    ELSE IF MaxDifficulty(window) \div MinDifficulty(window) > 1000
         THEN "Difficulty range too large"
    ELSE "Ok"

\* validate_difficulty_bounds(&shares)
ValidateDifficultyBounds ==
    /\ Fresh
    /\ verdict' = [call |-> "validate_difficulty_bounds", days |-> 0,
                   result |-> validate_difficulty_bounds(shares)]
    /\ UNCHANGED <<shares, simulator, calc, validation, payment_vars, admin_vars>>

NextBounds ==
    \/ \E share \in BoundsShareChoices : PushShare(share)
    \/ ValidateDifficultyBounds

SpecBounds == Init /\ [][NextBounds]_vars

\* ------------------------------------------------- validate_window_size
\* seconds of a day
Day == 86400

\* shares around a span of 14 days
SpanShareChoices ==
    {[btcaddress |-> "X", workername |-> "w1", difficulty |-> 1000, n_time |-> t] :
        t \in {0, 6 * Day, 14 * Day, 14 * Day + 1, 15 * Day - 1, 15 * Day}}

\* the expected_window_days a caller passes; -1 is u64::MAX
ExpectedDays == {0, 7, -1}

\* shares.iter().min_by_key(|a| a.n_time)
Oldest(window) ==
    CHOOSE t \in {window[i].n_time : i \in 1..Len(window)} :
        \A i \in 1..Len(window) : t <= window[i].n_time

\* shares.iter().max_by_key(|a| a.n_time)
Newest(window) ==
    CHOOSE t \in {window[i].n_time : i \in 1..Len(window)} :
        \A i \in 1..Len(window) : t >= window[i].n_time

\* PplnsSimulator::validate_window_size: Ok, or the message of the Err; the
\* u64 product expected_window_days * 2 wraps
validate_window_size(window, expected_window_days) ==
    IF window = << >> THEN "Ok"
    ELSE LET time_span == SaturatingSub(Newest(window), Oldest(window))
             time_span_days == time_span \div Day
         IN  IF U64Lt(expected_window_days + expected_window_days, time_span_days)
             THEN "PPLNS window spans too many days"
             ELSE "Ok"

\* validate_window_size(&shares, expected_window_days): where overflow checks
\* are compiled in, a product that leaves u64 panics
ValidateWindowSize(expected_window_days) ==
    /\ Fresh
    /\ \/ verdict' = [call |-> "validate_window_size", days |-> expected_window_days,
                      result |-> validate_window_size(shares, expected_window_days)]
       \/ /\ shares # << >>
          /\ AddOverflows(expected_window_days, expected_window_days)
          /\ verdict' = [call |-> "validate_window_size",
                         days |-> expected_window_days, result |-> "panic"]
    /\ UNCHANGED <<shares, simulator, calc, validation, payment_vars, admin_vars>>

NextSpan ==
    \/ \E share \in SpanShareChoices : PushShare(share)
    \/ \E d \in ExpectedDays : ValidateWindowSize(d)

SpecSpan == Init /\ [][NextSpan]_vars

\* ---------------------------------------------- the largest 64-bit inputs
\* 2_100_000_000_000_000 satoshis, the whole supply
MaxReward == <<0, 0, 0, 2100, 0, 0, 0>>

\* simulators for the whole supply
WideSimulators ==
    {[block_reward_satoshis |-> MaxReward, pool_fee_bps |-> f, pplns_window_days |-> 7] :
        f \in {0, 100, 3333, 9000, 10000}}

\* shares of one address, one of them of difficulty u64::MAX
HugeShareChoices ==
    {[btcaddress |-> "X", workername |-> "w1", difficulty |-> -1, n_time |-> 0],
     [btcaddress |-> "X", workername |-> "w1", difficulty |-> 1, n_time |-> 0]}

InitWide ==
    /\ InitPayment
    /\ InitAdmin
    /\ shares = << >>
    /\ simulator \in WideSimulators
    /\ calc = NoCalc
    /\ validation = NoValidation
    /\ verdict = NoVerdict

NextHuge ==
    \/ \E share \in HugeShareChoices : PushShare(share)
    \/ \E a \in Miners : CalculatePayout(a)
    \/ SimulatePayouts

\* the simulator on shares of any 64-bit difficulty
SpecHuge == InitWide /\ [][NextHuge]_vars

\* the simulator on the whole supply
SpecWide == InitWide /\ [][NextPplns]_vars

\* ========================================================== confirmation
\* pending.remove(id)
Removed(map, id) == [i \in DOMAIN map \ {id} |-> map[i]]

\* pending.insert(id, request)
Inserted(map, id, request) ==
    [i \in DOMAIN map \cup {id} |-> IF i = id THEN request ELSE map[i]]

\* the expiry test of confirm_change and apply_change, reversed
Expired_Never(request, now) == FALSE

\* the expiry test of confirm_change and apply_change
Expired(request, now) == now > request.expires_at

\* create_change_request: a request under a fresh id, neither confirmed nor
\* applied, that expires confirmation_timeout seconds from now
CreateChangeRequest ==
    /\ next_request <= MaxRequests
    /\ LET id == next_request
           request == [id |-> id, created_at |-> utc_now,
                       expires_at |-> utc_now + confirmation_timeout,
                       confirmed |-> FALSE, applied |-> FALSE]
       IN  /\ pending' = Inserted(pending, id, request)
           /\ next_request' = next_request + 1
           /\ conf_ret' = [op |-> "create", id |-> id, result |-> "Ok",
                           request |-> request, removed |-> 0]
           /\ history' = [history EXCEPT !.expires_at[id] = request.expires_at]
    /\ UNCHANGED <<utc_now, payment_vars, pplns_vars, rate_vars, service_vars>>

\* confirm_change, under the write lock of pending
ConfirmChange(id) ==
    /\ IF id \in DOMAIN pending
       THEN IF Expired(pending[id], utc_now)
            THEN /\ pending' = Removed(pending, id)
                 /\ conf_ret' = [op |-> "confirm", id |-> id, result |-> "Ok(false)",
                                 request |-> NoRequest, removed |-> 0]
                 /\ UNCHANGED history
            ELSE /\ pending' = [pending EXCEPT ![id].confirmed = TRUE]
                 /\ conf_ret' = [op |-> "confirm", id |-> id, result |-> "Ok(true)",
                                 request |-> NoRequest, removed |-> 0]
                 /\ history' = [history EXCEPT !.confirmed = @ \cup {id}]
       ELSE /\ conf_ret' = [op |-> "confirm", id |-> id,
                            result |-> "Change request not found or expired",
                            request |-> NoRequest, removed |-> 0]
            /\ UNCHANGED <<pending, history>>
    /\ UNCHANGED <<utc_now, next_request, payment_vars, pplns_vars, rate_vars, service_vars>>

\* apply_change, under the write lock of pending
ApplyChange(id) ==
    /\ IF id \in DOMAIN pending
       THEN IF ~pending[id].confirmed
            THEN /\ conf_ret' = [op |-> "apply", id |-> id,
                                 result |-> "Change not confirmed",
                                 request |-> NoRequest, removed |-> 0]
                 /\ UNCHANGED <<pending, history>>
            ELSE IF Expired(pending[id], utc_now)
            THEN /\ pending' = Removed(pending, id)
                 /\ conf_ret' = [op |-> "apply", id |-> id,
                                 result |-> "Change request expired",
                                 request |-> NoRequest, removed |-> 0]
                 /\ UNCHANGED history
            ELSE LET request == [pending[id] EXCEPT !.applied = TRUE]
                 IN  /\ pending' = Removed(Inserted(pending, id, request), id)
                     /\ conf_ret' = [op |-> "apply", id |-> id, result |-> "Ok",
                                     request |-> request, removed |-> 0]
                     /\ history' = [history EXCEPT !.applied[id] = @ + 1]
       ELSE /\ conf_ret' = [op |-> "apply", id |-> id,
                            result |-> "Change request not found or expired",
                            request |-> NoRequest, removed |-> 0]
            /\ UNCHANGED <<pending, history>>
    /\ UNCHANGED <<utc_now, next_request, payment_vars, pplns_vars, rate_vars, service_vars>>

\* cancel_change, under the write lock of pending
CancelChange(id) ==
    /\ pending' = Removed(pending, id)
    /\ conf_ret' = [op |-> "cancel", id |-> id,
                    result |-> IF id \in DOMAIN pending THEN "Ok(true)" ELSE "Ok(false)",
                    request |-> NoRequest, removed |-> 0]
    /\ history' = IF id \in DOMAIN pending
                  THEN [history EXCEPT !.cancelled = @ \cup {id}]
                  ELSE history
    /\ UNCHANGED <<utc_now, next_request, payment_vars, pplns_vars, rate_vars, service_vars>>

\* cleanup_expired: keeps the requests that expire after now
CleanupExpired ==
    /\ LET kept == {i \in DOMAIN pending : pending[i].expires_at > utc_now}
       IN  /\ pending' = [i \in kept |-> pending[i]]
           /\ conf_ret' = [op |-> "cleanup", id |-> 0, result |-> "Ok",
                           request |-> NoRequest,
                           removed |-> Cardinality(DOMAIN pending) - Cardinality(kept)]
    /\ UNCHANGED <<utc_now, next_request, history, payment_vars, pplns_vars, rate_vars, service_vars>>

\* the wall clock advances
UtcTick(d) ==
    /\ utc_now + d <= MaxClock
    /\ utc_now' = utc_now + d
    /\ UNCHANGED <<pending, next_request, conf_ret, history, payment_vars, pplns_vars,
                   rate_vars, service_vars>>

NextConfirmation ==
    \/ CreateChangeRequest
    \/ \E id \in RequestIds : ConfirmChange(id)
    \/ \E id \in RequestIds : ApplyChange(id)
    \/ \E id \in RequestIds : CancelChange(id)
    \/ CleanupExpired
    \/ \E d \in ClockSteps : UtcTick(d)

\* the change confirmation alone
SpecConfirmation == Init /\ [][NextConfirmation]_vars

\* ============================================================ rate limit
\* cleanup_old_requests: keeps the instants younger than the window
cleanup_old_requests(times, now) ==
    SelectSeq(times, LAMBDA t : now - t < RateWindow)

\* the limit test of the checks, off by one
LimitReached_Above(len, rpm) == len > rpm

\* the limit test of check_api_rate_limit and check_login_rate_limit
LimitReached(len, rpm) == len >= rpm

\* times.entry(ip).or_insert_with(Vec::new)
EntryOf(times, ip) == IF ip \in DOMAIN times THEN times[ip] ELSE << >>

\* the body of both checks on the map of one limiter, entered at the instant
\* now and pushing the instant pushed: the map, the answer and the instant of
\* the request let through (none: an empty sequence)
check_rate_limit(times, ip, rpm, now, pushed) ==
    LET requests == cleanup_old_requests(EntryOf(times, ip), now)
    IN  IF LimitReached(Len(requests), rpm)
        THEN [times |-> Inserted(times, ip, requests), ret |-> "TooManyRequests",
              let_through |-> << >>]
        ELSE [times |-> Inserted(times, ip, Append(requests, pushed)), ret |-> "Ok",
              let_through |-> <<pushed>>]

\* a caller enters check_api_rate_limit or check_login_rate_limit and waits for
\* the write lock of the map
BeginRateCheck(p, limiter, ip) ==
    /\ rate_call[p] = NoRateCall
    /\ rate_calls < MaxRateCalls
    /\ rate_calls' = rate_calls + 1
    /\ rate_call' = [rate_call EXCEPT ![p] = [limiter |-> limiter, ip |-> ip]]
    /\ UNCHANGED <<api_request_times, login_request_times, instant, rate_ret,
                   accepted, payment_vars, pplns_vars, confirmation_vars, service_vars>>

\* check_api_rate_limit, under the write lock of api_request_times; the clock
\* may advance by d between the two readings of Instant::now()
CheckApiRateLimit(p, d) ==
    /\ rate_call[p].limiter = "api"
    /\ instant + d <= MaxInstant
    /\ LET ip == rate_call[p].ip
           r == check_rate_limit(api_request_times, ip, api_rpm, instant, instant + d)
       IN  /\ api_request_times' = r.times
           /\ rate_ret' = [rate_ret EXCEPT ![p] = r.ret]
           /\ accepted' = [accepted EXCEPT !["api"][ip] = @ \o r.let_through]
    /\ instant' = instant + d
    /\ rate_call' = [rate_call EXCEPT ![p] = NoRateCall]
    /\ UNCHANGED <<login_request_times, rate_calls, payment_vars, pplns_vars,
                   confirmation_vars, service_vars>>

\* check_login_rate_limit, under the write lock of login_request_times
CheckLoginRateLimit(p, d) ==
    /\ rate_call[p].limiter = "login"
    /\ instant + d <= MaxInstant
    /\ LET ip == rate_call[p].ip
           r == check_rate_limit(login_request_times, ip, login_rpm, instant,
                                 instant + d)
       IN  /\ login_request_times' = r.times
           /\ rate_ret' = [rate_ret EXCEPT ![p] = r.ret]
           /\ accepted' = [accepted EXCEPT !["login"][ip] = @ \o r.let_through]
    /\ instant' = instant + d
    /\ rate_call' = [rate_call EXCEPT ![p] = NoRateCall]
    /\ UNCHANGED <<api_request_times, rate_calls, payment_vars, pplns_vars,
                   confirmation_vars, service_vars>>

\* the monotonic clock advances
InstantTick(d) ==
    /\ instant + d <= MaxInstant
    /\ instant' = instant + d
    /\ UNCHANGED <<api_request_times, login_request_times, rate_call, rate_ret,
                   accepted, rate_calls, payment_vars, pplns_vars, confirmation_vars, service_vars>>

NextRateLimit ==
    \/ \E p \in RateCallers, limiter \in Limiters, ip \in Ips :
          BeginRateCheck(p, limiter, ip)
    \/ \E p \in RateCallers, d \in PushDelays : CheckApiRateLimit(p, d)
    \/ \E p \in RateCallers, d \in PushDelays : CheckLoginRateLimit(p, d)
    \/ \E d \in InstantSteps : InstantTick(d)

\* the rate limiter alone
SpecRateLimit == Init /\ [][NextRateLimit]_vars

\* ------------------------------------ windows around the 64-bit boundary
\* a share of an address with a difficulty
ShareOf(a, d) == [btcaddress |-> a, workername |-> "w1", difficulty |-> d, n_time |-> 0]

\* windows of two miners whose difficulties are 1 and u64::MAX: their sum
\* stays within 64 bits, or is exactly 2^64
WrapWindows ==
    {<<ShareOf("X", -1), ShareOf("Y", 1)>>,
     <<ShareOf("Y", 1), ShareOf("X", -1)>>,
     <<ShareOf("X", -1)>>,
     <<ShareOf("X", 1), ShareOf("Y", 1)>>,
     <<ShareOf("Y", 1)>>}

\* a simulator is handed one of the windows
InitWrap ==
    /\ InitPayment
    /\ InitAdmin
    /\ shares \in WrapWindows
    /\ simulator \in Simulators
    /\ calc = NoCalc
    /\ validation = NoValidation
    /\ verdict = NoVerdict

NextWrap ==
    \/ \E a \in Miners : CalculatePayout(a)
    \/ SimulatePayouts

\* the simulator on windows around the 64-bit boundary
SpecWrap == InitWrap /\ [][NextWrap]_vars

\* ============================================================= audit log
\* the trim of AuditLogger::log: drains the oldest entries beyond max_logs
Trimmed(logs) ==
    IF Len(logs) > max_logs
    THEN SubSeq(logs, Len(logs) - max_logs + 1, Len(logs))
    ELSE logs

\* AuditLogger::log with persistence: appends the entry to the file (a failed
\* write is only reported), then pushes it and trims
AuditLog(written) ==
    /\ next_entry <= MaxEntries
    /\ next_entry' = next_entry + 1
    /\ audit_file' = IF written THEN Append(audit_file, next_entry) ELSE audit_file
    /\ audit_logs' = Trimmed(Append(audit_logs, next_entry))
    /\ UNCHANGED beside_audit

\* AuditLogBuilder::log, on the Vec shared with the logger: pushes the entry
AuditBuilderLog ==
    /\ next_entry <= MaxEntries
    /\ Len(audit_logs) < MaxAuditLen
    /\ next_entry' = next_entry + 1
    /\ audit_logs' = Append(audit_logs, next_entry)
    /\ UNCHANGED <<audit_file, beside_audit>>

\* AuditLogger::load_from_file: pushes every entry of the file
AuditLoadFromFile ==
    /\ Len(audit_logs) + Len(audit_file) <= MaxAuditLen
    /\ audit_logs' = audit_logs \o audit_file
    /\ UNCHANGED <<audit_file, next_entry, beside_audit>>

NextAudit ==
    \/ \E written \in BOOLEAN : AuditLog(written)
    \/ AuditBuilderLog
    \/ AuditLoadFromFile

\* the audit log alone
SpecAudit == Init /\ [][NextAudit]_vars

\* ================================================================== auth
\* validate_password_strength(password).is_valid
validate_password_strength(password) == password # "password"

\* bcrypt::hash and bcrypt::verify
BcryptHash(password) == <<"$2b$12$", password>>
BcryptVerify(password, hash) == hash = BcryptHash(password)

\* the index of the first user of that name, 0 when there is none
FindUser(list, username) ==
    IF \E i \in 1..Len(list) : list[i].username = username
    THEN CHOOSE i \in 1..Len(list) :
            /\ list[i].username = username
            /\ \A j \in 1..(i - 1) : list[j].username # username
    ELSE 0

\* create_user(username, password, role) up to self.users.write().await
BeginCreateUser(p, username, password, role) ==
    /\ auth_pc[p] = "idle"
    /\ auth_calls < MaxAuthCalls
    /\ auth_calls' = auth_calls + 1
    /\ auth_call' = [auth_call EXCEPT ![p] =
            [op |-> "create_user", username |-> username, password |-> password,
             role |-> role]]
    /\ IF validate_password_strength(password)
       THEN /\ auth_pc' = [auth_pc EXCEPT ![p] = "await_write"]
            /\ auth_ret' = [auth_ret EXCEPT ![p] = NoAuthRet]
       ELSE /\ auth_ret' = [auth_ret EXCEPT ![p] = [NoAuthRet EXCEPT !.result = "Err"]]
            /\ UNCHANGED auth_pc
    /\ UNCHANGED <<users, users_readers, beside_auth>>

\* authenticate(username, password) up to self.users.read().await
BeginAuthenticate(p, username, password) ==
    /\ auth_pc[p] = "idle"
    /\ auth_calls < MaxAuthCalls
    /\ auth_calls' = auth_calls + 1
    /\ auth_call' = [auth_call EXCEPT ![p] =
            [op |-> "authenticate", username |-> username, password |-> password,
             role |-> ""]]
    /\ auth_pc' = [auth_pc EXCEPT ![p] = "await_read"]
    /\ auth_ret' = [auth_ret EXCEPT ![p] = NoAuthRet]
    /\ UNCHANGED <<users, users_readers, beside_auth>>

\* authenticate is given the read guard (a write guard is only ever held
\* within one step, so none is out): it looks the user up and verifies the
\* password; with a valid password it goes on to self.users.write().await
\* with the read guard still alive, otherwise it drops the guard and returns
\* None
UsersRead(p) ==
    /\ auth_pc[p] = "await_read"
    /\ LET i == FindUser(users, auth_call[p].username)
           is_valid == /\ i # 0
                       /\ BcryptVerify(auth_call[p].password, users[i].password_hash)
       IN  IF is_valid
           THEN /\ users_readers' = users_readers \cup {p}
                /\ auth_pc' = [auth_pc EXCEPT ![p] = "await_write"]
                /\ UNCHANGED auth_ret
           ELSE /\ auth_pc' = [auth_pc EXCEPT ![p] = "idle"]
                /\ auth_ret' = [auth_ret EXCEPT ![p] =
                        [NoAuthRet EXCEPT !.result = "None"]]
                /\ UNCHANGED users_readers
    /\ UNCHANGED <<users, auth_call, auth_calls, beside_auth>>

\* a caller waiting in self.users.write().await is given the write guard,
\* which takes that no guard of the lock is alive. create_user pushes the
\* user and returns Ok; authenticate records last_login, returns the user and
\* drops its guards
UsersWrite(p) ==
    /\ auth_pc[p] = "await_write"
    /\ users_readers = {}
    /\ auth_pc' = [auth_pc EXCEPT ![p] = "idle"]
    /\ IF auth_call[p].op = "create_user"
       THEN /\ users' = Append(users,
                    [username |-> auth_call[p].username,
                     password_hash |-> BcryptHash(auth_call[p].password),
                     role |-> auth_call[p].role,
                     last_login |-> -1])
            /\ auth_ret' = [auth_ret EXCEPT ![p] = [NoAuthRet EXCEPT !.result = "Ok"]]
       ELSE LET i == FindUser(users, auth_call[p].username)
            IN  /\ users' = [users EXCEPT ![i].last_login = utc_now]
                /\ auth_ret' = [auth_ret EXCEPT ![p] =
                        [result |-> "Some", username |-> users[i].username,
                         last_login |-> utc_now]]
    /\ UNCHANGED <<users_readers, auth_call, auth_calls, beside_auth>>

NextAuth ==
    \/ \E p \in AuthCallers, username \in Usernames, password \in Passwords :
          \/ BeginCreateUser(p, username, password, "admin")
          \/ BeginAuthenticate(p, username, password)
    \/ \E p \in AuthCallers : UsersRead(p) \/ UsersWrite(p)

\* AuthManager alone; every task that can take a step is scheduled in the end
SpecAuth ==
    /\ Init /\ [][NextAuth]_vars
    /\ \A p \in AuthCallers : WF_vars(UsersRead(p)) /\ WF_vars(UsersWrite(p))

\* ============================================================ two factor
\* hash_backup_code: the SHA-256 of the code, in hexadecimal
hash_backup_code(code) == <<"sha256", code>>

\* a call returns
TfReturn(p, r) ==
    /\ tf_pc' = [tf_pc EXCEPT ![p] = "idle"]
    /\ tf_ret' = [tf_ret EXCEPT ![p] = r]

\* generate_secret(username) up to self.backup_codes.write().await: the
\* secret is stored, not enabled
BeginGenerateSecret(p, username) ==
    /\ next_code + CodesPerSetup - 1 <= CodesPerSetup * MaxSetups
    /\ tf_pc[p] = "idle"
    /\ tf_calls < MaxTfCalls
    /\ tf_calls' = tf_calls + 1
    /\ tf_call' = [tf_call EXCEPT ![p] =
            [op |-> "generate_secret", username |-> username, code |-> 0]]
    /\ tf_pc' = [tf_pc EXCEPT ![p] = "codes_write"]
    /\ tf_ret' = [tf_ret EXCEPT ![p] = "none"]
    /\ secrets' = [secrets EXCEPT ![username] = "disabled"]
    /\ UNCHANGED <<backup_codes, backup_file, codes_writer, backup_code_rate_limits,
                   next_code, tf_logins, consumed, beside_twofa>>

\* generate_secret is given the write guard of backup_codes, stores the
\* hashes of new codes and drops the guard
GenerateCodes(p) ==
    /\ tf_pc[p] = "codes_write"
    /\ codes_writer = {}
    /\ backup_codes' = [backup_codes EXCEPT ![tf_call[p].username] =
            {hash_backup_code(c) : c \in next_code..(next_code + CodesPerSetup - 1)}]
    /\ next_code' = next_code + CodesPerSetup
    /\ tf_pc' = [tf_pc EXCEPT ![p] = "save"]
    /\ UNCHANGED <<secrets, backup_file, codes_writer, backup_code_rate_limits,
                   tf_call, tf_ret, tf_calls, tf_logins, consumed, beside_twofa>>

\* enable_2fa(username, code), the TOTP code being right or wrong
Enable2fa(p, username, totp_ok) ==
    /\ tf_pc[p] = "idle"
    /\ tf_calls < MaxTfCalls
    /\ tf_calls' = tf_calls + 1
    /\ tf_call' = [tf_call EXCEPT ![p] =
            [op |-> "enable_2fa", username |-> username, code |-> 0]]
    /\ UNCHANGED tf_pc
    /\ IF secrets[username] = "none"
       THEN /\ tf_ret' = [tf_ret EXCEPT ![p] = "Err"]
            /\ UNCHANGED secrets
       ELSE IF totp_ok
       THEN /\ secrets' = [secrets EXCEPT ![username] = "enabled"]
            /\ tf_ret' = [tf_ret EXCEPT ![p] = "true"]
       ELSE /\ tf_ret' = [tf_ret EXCEPT ![p] = "false"]
            /\ UNCHANGED secrets
    /\ UNCHANGED <<backup_codes, backup_file, codes_writer, backup_code_rate_limits,
                   next_code, tf_logins, consumed, beside_twofa>>

\* verify_login(username, None, Some(code)) up to the backup code: without
\* an enabled secret the verification is skipped
BeginVerifyLogin(p, username, code) ==
    /\ tf_pc[p] = "idle"
    /\ tf_calls < MaxTfCalls
    /\ tf_calls' = tf_calls + 1
    /\ tf_call' = [tf_call EXCEPT ![p] =
            [op |-> "verify_login", username |-> username, code |-> code]]
    /\ IF secrets[username] = "enabled"
       THEN /\ tf_pc' = [tf_pc EXCEPT ![p] = "limit"]
            /\ tf_ret' = [tf_ret EXCEPT ![p] = "none"]
       ELSE /\ tf_ret' = [tf_ret EXCEPT ![p] = "skipped"]
            /\ UNCHANGED tf_pc
    /\ UNCHANGED <<secrets, backup_codes, backup_file, codes_writer,
                   backup_code_rate_limits, next_code, tf_logins, consumed,
                   beside_twofa>>

\* is_backup_code_rate_limited(username)
is_backup_code_rate_limited(username) ==
    /\ backup_code_rate_limits[username].locked_until # -1
    /\ utc_now < backup_code_rate_limits[username].locked_until

\* verify_backup_code_with_rate_limit, the rate limit test
BackupRateLimit(p) ==
    /\ tf_pc[p] = "limit"
    /\ IF is_backup_code_rate_limited(tf_call[p].username)
       THEN TfReturn(p, "false")
       ELSE tf_pc' = [tf_pc EXCEPT ![p] = "verify"] /\ UNCHANGED tf_ret
    /\ UNCHANGED <<secrets, backup_codes, backup_file, codes_writer,
                   backup_code_rate_limits, next_code, tf_call, tf_calls, tf_logins,
                   consumed, beside_twofa>>

\* record_failed_backup_attempt
FailedAttempt(limit) ==
    IF limit.attempts + 1 >= max_backup_attempts
    THEN [attempts |-> limit.attempts + 1, locked_until |-> utc_now + lockout_duration]
    ELSE [limit EXCEPT !.attempts = @ + 1]

\* verify_backup_code under the read guard of backup_codes, which takes that
\* no write guard is out, and the update of the rate limit that follows: a
\* valid code goes on to consume_backup_code, another one returns false
VerifyBackupCode(p) ==
    /\ tf_pc[p] = "verify"
    /\ codes_writer = {}
    /\ LET username == tf_call[p].username
           is_valid == hash_backup_code(tf_call[p].code) \in backup_codes[username]
       IN  IF is_valid
           THEN /\ backup_code_rate_limits' =
                       [backup_code_rate_limits EXCEPT ![username] = NoLimit]
                /\ tf_pc' = [tf_pc EXCEPT ![p] = "consume"]
                /\ UNCHANGED tf_ret
           ELSE /\ backup_code_rate_limits' =
                       [backup_code_rate_limits EXCEPT ![username] = FailedAttempt(@)]
                /\ TfReturn(p, "false")
    /\ UNCHANGED <<secrets, backup_codes, backup_file, codes_writer, next_code,
                   tf_call, tf_calls, tf_logins, consumed, beside_twofa>>

\* consume_backup_code up to self.save_backup_codes().await: the write guard
\* of backup_codes is taken, the code removed, and the guard kept
ConsumeBackupCode(p) ==
    /\ tf_pc[p] = "consume"
    /\ codes_writer = {}
    /\ codes_writer' = {p}
    /\ backup_codes' = [backup_codes EXCEPT ![tf_call[p].username] =
            @ \ {hash_backup_code(tf_call[p].code)}]
    /\ consumed' = consumed \cup {tf_call[p].code}
    /\ tf_pc' = [tf_pc EXCEPT ![p] = "save"]
    /\ UNCHANGED <<secrets, backup_file, backup_code_rate_limits, next_code,
                   tf_call, tf_ret, tf_calls, tf_logins, beside_twofa>>

\* save_backup_codes is given the read guard of backup_codes, which takes
\* that no write guard is out, and writes the file. generate_secret then
\* returns the setup; consume_backup_code returns, its write guard is
\* dropped and verify_login returns true
SaveBackupCodes(p) ==
    /\ tf_pc[p] = "save"
    /\ codes_writer = {}
    /\ backup_file' = backup_codes
    /\ IF tf_call[p].op = "verify_login"
       THEN /\ tf_logins' = [tf_logins EXCEPT ![tf_call[p].code] = @ + 1]
            /\ TfReturn(p, "true")
       ELSE /\ TfReturn(p, "Ok")
            /\ UNCHANGED tf_logins
    /\ UNCHANGED <<secrets, backup_codes, codes_writer, backup_code_rate_limits,
                   next_code, tf_call, tf_calls, consumed, beside_twofa>>

TfStep(p) ==
    \/ GenerateCodes(p)
    \/ BackupRateLimit(p)
    \/ VerifyBackupCode(p)
    \/ ConsumeBackupCode(p)
    \/ SaveBackupCodes(p)

NextTwoFactor ==
    \/ \E p \in TfCallers, username \in TfUsers :
          \/ BeginGenerateSecret(p, username)
          \/ \E totp_ok \in BOOLEAN : Enable2fa(p, username, totp_ok)
          \/ \E code \in BackupCodeChoices : BeginVerifyLogin(p, username, code)
    \/ \E p \in TfCallers : TfStep(p)

\* TwoFactorManager alone; every task that can take a step is scheduled in
\* the end
SpecTwoFactor ==
    /\ Init /\ [][NextTwoFactor]_vars
    /\ \A p \in TfCallers : WF_vars(TfStep(p))

\* ================================================================ reload
\* validate_config(config) is Ok
validate_config(cfg) == cfg.api_port >= 1024

\* the operator writes the configuration file, which gets a modification
\* time later than every time read before
WriteFile(cfg) ==
    /\ fs_clock < MaxFsClock
    /\ fs_clock' = fs_clock + 1
    /\ config_file' = [content |-> cfg, modified |-> fs_clock + 1]
    /\ UNCHANGED <<current_config, last_modified, checksum, checksum_readers,
                   watcher_pc, watcher_local, returned_config, beside_reload>>

\* check_and_reload, called by the watcher at a tick of its interval. Up to
\* checksum.write().await it is one step: an unchanged modification time, a
\* configuration that is not valid and an unchanged checksum return; a new
\* checksum stores the configuration and waits for the write guard of
\* checksum with the read guard current_checksum alive. The write guard is
\* given when no guard of checksum is out; checksum and last_modified are
\* then written and the call returns.
CheckAndReload ==
    /\ IF watcher_pc = "tick"
       THEN LET modified == config_file.modified
                new_config == config_file.content
                new_checksum == compute_checksum(new_config)
            IN  IF modified <= last_modified \/ ~validate_config(new_config)
                THEN UNCHANGED <<current_config, last_modified, checksum,
                                 checksum_readers, watcher_pc, watcher_local>>
                ELSE IF new_checksum = checksum
                THEN /\ last_modified' = modified
                     /\ UNCHANGED <<current_config, checksum, checksum_readers,
                                    watcher_pc, watcher_local>>
                ELSE /\ current_config' = new_config
                     /\ checksum_readers' = {"watcher"}
                     /\ watcher_pc' = "checksum_write"
                     /\ watcher_local' = [new_config |-> new_config, modified |-> modified]
                     /\ UNCHANGED <<last_modified, checksum>>
       ELSE /\ watcher_pc = "checksum_write"
            /\ checksum_readers = {}
            /\ checksum' = compute_checksum(watcher_local.new_config)
            /\ last_modified' = watcher_local.modified
            /\ watcher_pc' = "tick"
            /\ watcher_local' = NoWatcherLocal
            /\ UNCHANGED <<current_config, checksum_readers>>
    /\ UNCHANGED <<config_file, fs_clock, returned_config, beside_reload>>

\* reload_now()
ReloadNow ==
    /\ IF validate_config(config_file.content)
       THEN /\ current_config' = config_file.content
            /\ last_modified' = config_file.modified
       ELSE UNCHANGED <<current_config, last_modified>>
    /\ UNCHANGED <<config_file, fs_clock, checksum, checksum_readers, watcher_pc,
                   watcher_local, returned_config, beside_reload>>

\* get_config()
GetConfig ==
    /\ returned_config' = current_config
    /\ UNCHANGED <<config_file, fs_clock, current_config, last_modified, checksum,
                   checksum_readers, watcher_pc, watcher_local, beside_reload>>

NextReload ==
    \/ \E cfg \in Configs : WriteFile(cfg)
    \/ CheckAndReload
    \/ ReloadNow
    \/ GetConfig

\* ConfigReloader alone; the watcher's interval keeps ticking and get_config
\* keeps being called
SpecReload ==
    /\ Init /\ [][NextReload]_vars
    /\ WF_vars(CheckAndReload) /\ WF_vars(GetConfig)

\* ================================================================ claims
\* no call is running
Idle == \A p \in Procs : pc[p] = "idle"

RECURSIVE SumOver(_, _, _)
\* sum of the amounts of the records of list for address a with a status in S
SumOver(list, a, S) ==
    IF list = << >> THEN 0
    ELSE (IF Head(list).address = a /\ Head(list).status \in S
          THEN Head(list).amount_satoshis ELSE 0) + SumOver(Tail(list), a, S)

Reserving == {"Pending", "Broadcast", "Confirmed"}

AllStatuses == {"Pending", "Broadcast", "Confirmed", "Failed"}

\* the record with that id in list, NoPayout when there is none
PayoutOf(list, id) ==
    IF IndexOf(list, id) = {} THEN NoPayout
    ELSE list[CHOOSE i \in IndexOf(list, id) : TRUE]

\* C1: after every add_earnings or create_payout call, for every address,
\* balance = total_earned - sum of the amounts of its Pending, Broadcast and
\* Confirmed payout records.
C1_Conservation ==
    Idle => \A a \in DOMAIN balances :
        balances[a].balance_satoshis =
            balances[a].total_earned_satoshis - SumOver(payouts, a, Reserving)

\* C2: concurrent create_payout calls never reserve more than the address
\* earned, and the balance never wraps below zero.
C2_NoDoubleReserve ==
    \A a \in DOMAIN balances :
        /\ balances[a].balance_satoshis >= 0
        /\ max_payouts >= next_id - 1 =>
              SumOver(payouts, a, AllStatuses) <= balances[a].total_earned_satoshis

\* C3: a create_payout whose amount exceeds the balance it reads returns the
\* insufficient-balance error at once and changes neither the balances, nor
\* the payout list, nor the files.
C3_InsufficientRejected ==
    [][\A p \in Procs :
        (/\ pc[p] = "create_check"
         /\ pc'[p] # "create_check"
         /\ local[p].address \in DOMAIN balances
         /\ U64Lt(balances[local[p].address].balance_satoshis, local[p].amount))
        => /\ pc'[p] = "idle"
           /\ ret'[p] = "Insufficient balance"
           /\ balances' = balances
           /\ payouts' = payouts
           /\ disk' = disk
           /\ next_id' = next_id]_vars

C3_Witness ==
    /\ pc[1] = "idle"
    /\ ret[1] = "Insufficient balance"
    /\ balances # << >>

\* C4: a payout record whose status is Confirmed or Failed keeps that status.
C4_TerminalStatuses ==
    [][\A id \in PayoutIds :
        (/\ PayoutOf(payouts, id).status \in {"Confirmed", "Failed"}
         /\ IndexOf(payouts', id) # {})
        => PayoutOf(payouts', id).status = PayoutOf(payouts, id).status]_vars

\* C5: whenever no call is running (and no disk write has failed), every
\* MinerBalance has
\* balance + (amounts reserved by its Pending, Broadcast and Confirmed
\* payouts) = total_earned.
C5_LedgerInvariant ==
    (Idle /\ faults = 0) => \A a \in DOMAIN balances :
        balances[a].balance_satoshis + SumOver(payouts, a, Reserving) =
            balances[a].total_earned_satoshis

\* C6: as long as no record was trimmed, total_paid of an address never
\* exceeds the amounts of its Confirmed payouts: confirming a payout again
\* does not add its amount a second time.
C6_PaidOnce ==
    max_payouts >= next_id - 1 =>
        \A a \in DOMAIN balances :
            balances[a].total_paid_satoshis <= SumOver(payouts, a, {"Confirmed"})

\* C7: a running call is never blocked for good: with one caller and no
\* failed disk write, the next step of its call is always possible (so the
\* call returns once the node and the disk have answered).
C7_CallsReturn ==
    (faults = 0 /\ pc[1] # "idle") => ENABLED Step(1)

\* C8: a broadcast_payout that fails at the gateway leaves its payout Failed,
\* with an error message.
C8_GatewayFailureMarksFailed ==
    [][\A p \in Procs :
        (/\ pc[p] \in {"bc_list_unspent", "bc_select", "bc_create_raw", "bc_sign", "bc_send"}
         /\ pc'[p] = "idle"
         /\ ret'[p] # "panic")
        => /\ PayoutOf(payouts', local[p].id).status = "Failed"
           /\ PayoutOf(payouts', local[p].id).error # "none"]_vars

\* C9: confirm_payout on a Broadcast payout: at or above the threshold the
\* record becomes Confirmed and total_paid of its address grows by its amount;
\* below it the count is stored and status and total_paid stay; balance and
\* total_earned of every address stay in both cases.
C9_ConfirmEffect ==
    [][\A p \in Procs :
        LET id == local[p].id
            old == PayoutOf(payouts, id)
            new == PayoutOf(payouts', id)
            a == old.address
        IN  /\ (/\ pc[p] = "confirm_mark"
                /\ pc'[p] # "confirm_mark"
                /\ old.status = "Broadcast")
               => /\ balances' = balances
                  /\ new.confirmations = local[p].confirmations
                  /\ IF local[p].confirmations >= config.required_confirmations
                     THEN new.status = "Confirmed" /\ pc'[p] = "confirm_paid"
                     ELSE new.status = "Broadcast" /\ pc'[p] = "save_balances"
            /\ (pc[p] = "confirm_paid" /\ pc'[p] # "confirm_paid")
               => /\ payouts' = payouts
                  /\ pc'[p] = "save_balances"
                  /\ a \in DOMAIN balances
                  /\ balances' = [balances EXCEPT ![a].total_paid_satoshis =
                                     @ + old.amount_satoshis]
            /\ pc[p] \in {"save_balances", "write_balances", "save_payouts", "write_payouts"}
               => balances' = balances /\ payouts' = payouts]_vars

C9_Witness ==
    \E i \in 1..Len(payouts) :
        /\ payouts[i].status = "Confirmed"
        /\ sent[payouts[i].id] = 1
        /\ payouts[i].amount_satoshis > 0
        /\ balances[payouts[i].address].total_paid_satoshis = payouts[i].amount_satoshis
        /\ pc[1] = "save_payouts"
        /\ disk.balances = FileOf(BalancesJson(balances))

\* C10: a payout record becomes Confirmed only from Broadcast.
C10_ConfirmedFromBroadcast ==
    [][\A id \in PayoutIds :
        (/\ PayoutOf(payouts', id).status = "Confirmed"
         /\ PayoutOf(payouts, id).status # "Confirmed")
        => PayoutOf(payouts, id).status = "Broadcast"]_vars

\* a create_payout call of caller p is between its debit and its return
InCreate(p) ==
    /\ pc[p] \in {"create_push", "save_balances", "write_balances",
                  "save_payouts", "write_payouts"}
    /\ local[p].address # "none"
    /\ local[p].payout.id # 0

\* C11: a create_payout(a, amt) with amt <= balance(a) builds a Pending
\* payout of amt with no txid and 0 confirmations, takes exactly amt from
\* balance(a) and nothing else from the balance map, appends exactly that
\* record to the payout list, and changes neither map nor list afterwards.
C11_CreateEffect ==
    [][\A p \in Procs :
        LET a == local[p].address
            amt == local[p].amount
        IN  /\ (/\ pc[p] = "create_debit"
                /\ pc'[p] # "create_debit"
                /\ a \in DOMAIN balances
                /\ ~U64Lt(balances[a].balance_satoshis, amt))
               => /\ pc'[p] = "create_push"
                  /\ balances' = [balances EXCEPT ![a].balance_satoshis = @ - amt]
                  /\ payouts' = payouts
                  /\ local'[p].payout.status = "Pending"
                  /\ local'[p].payout.address = a
                  /\ local'[p].payout.amount_satoshis = amt
                  /\ local'[p].payout.txid = "none"
                  /\ local'[p].payout.confirmations = 0
                  /\ IndexOf(payouts, local'[p].payout.id) = {}
            /\ (pc[p] = "create_push" /\ pc'[p] # "create_push")
               => /\ payouts' = Append(payouts, local[p].payout)
                  /\ balances' = balances
            /\ (InCreate(p) /\ pc[p] # "create_push")
               => balances' = balances /\ payouts' = payouts]_vars

\* C12: broadcast_payout on an unknown payout id, or on a payout that is not
\* Pending, returns the error at once: no RPC of the node is reached and no
\* balance, payout record or file changes.
C12_BroadcastRejected ==
    [][\A p \in Procs :
        (/\ pc[p] = "bc_find"
         /\ pc'[p] # "bc_find"
         /\ PayoutOf(payouts, local[p].id).status # "Pending")
        => /\ pc'[p] = "idle"
           /\ ret'[p] = IF IndexOf(payouts, local[p].id) = {}
                        THEN "Payout not found" ELSE "Payout is not pending"
           /\ balances' = balances
           /\ payouts' = payouts
           /\ disk' = disk
           /\ sent' = sent]_vars

C12_Witness ==
    /\ pc[1] = "idle"
    /\ ret[1] = "Payout is not pending"
    /\ \E i \in 1..Len(payouts) : payouts[i].status = "Failed"

\* the await points of broadcast_payout on an RPC of the node
RpcWaits == {"bc_list_unspent", "bc_create_raw", "bc_sign", "bc_send"}

\* C13: a broadcast_payout waiting on an RPC of the node holds neither the
\* balances lock nor the payouts lock, and a get_balance or get_all_balances
\* of another caller can complete while it waits.
C13_RpcHoldsNoLedgerLock ==
    \A q \in Procs :
        pc[q] \in RpcWaits =>
            /\ locks.balances.w # q /\ q \notin locks.balances.r
            /\ locks.payouts.w # q /\ q \notin locks.payouts.r
            /\ \A p \in Procs \ {q} :
                  /\ pc[p] = "get_balance" => ENABLED GetBalance(p)
                  /\ pc[p] = "get_all_balances" => ENABLED GetAllBalances(p)

C13_Witness ==
    /\ pc[1] = "bc_send"
    /\ pc[2] = "get_balance"
    /\ local[2].address \in DOMAIN balances

\* C14: once a mutating operation has returned Ok, balances.json and
\* payouts.json hold the in-memory balances and payout list.
C14_SnapshotCurrent ==
    (pc[1] = "idle" /\ ret[1] = "Ok") =>
        /\ disk.balances = FileOf(BalancesJson(balances))
        /\ disk.payouts = FileOf(PayoutsJson(payouts))

C16_DiskFailureKeepsMutation ==
    [][\A p \in Procs :
        (/\ InCreate(p)
         /\ pc'[p] # pc[p]
         /\ \/ pc[p] = "write_balances" /\ disk'.balances # FileOf(local[p].buf)
            \/ pc[p] = "write_payouts" /\ disk'.payouts # FileOf(local[p].buf))
        => LET a == local[p].address
           IN  /\ pc'[p] = "idle"
               /\ ret'[p] \in {"balances file not written", "payouts file not written"}
               /\ balances' = balances
               /\ payouts' = payouts
               /\ PayoutOf(payouts', local[p].payout.id) = local[p].payout
               /\ local[p].payout.status = "Pending"
               /\ max_payouts >= next_id - 1 =>
                     balances'[a].balance_satoshis =
                        balances'[a].total_earned_satoshis
                            - SumOver(payouts', a, AllStatuses)]_vars

C16_Witness ==
    /\ pc[1] = "idle"
    /\ ret[1] = "balances file not written"
    /\ Len(payouts) = 1
    /\ payouts[1].status = "Pending"
    /\ payouts[1].txid = "none"
    /\ balances[payouts[1].address].balance_satoshis =
          balances[payouts[1].address].total_earned_satoshis - payouts[1].amount_satoshis
    /\ disk.balances # FileOf(BalancesJson(balances))

\* the first UTXO of a list whose value covers need, 0 when there is none
FirstCovering(unspent, need) ==
    LET Q == {i \in 1..Len(unspent) : ~U64Lt(ToSatoshis(unspent[i]), need)}
    IN  IF Q = {} THEN 0 ELSE CHOOSE i \in Q : \A j \in Q : i <= j

\* C17: broadcast_payout spends the first UTXO of the list_unspent answer
\* whose value is at least the payout amount plus the fee estimate: it goes
\* on to build a transaction only with that UTXO as input, it does go on
\* when that UTXO leaves a change of at least the dust limit, and it fails
\* when no UTXO of the answer covers amount plus fee.
C17_FirstCoveringUtxo ==
    [][\A p \in Procs :
        LET unspent == local[p].buf
            need == local[p].payout.amount_satoshis + FeeEstimate
            first == FirstCovering(unspent, need)
        IN  (pc[p] = "bc_select" /\ pc'[p] # "bc_select" /\ unspent # << >>)
            => /\ pc'[p] = "bc_create_raw" =>
                     /\ first # 0
                     /\ local'[p].input = ToSatoshis(unspent[first])
               /\ first = 0 => pc'[p] = "idle"
               /\ (first # 0 /\ ToSatoshis(unspent[first]) - need >= DustLimit)
                     => pc'[p] = "bc_create_raw"]_vars

\* C18: every transaction broadcast_payout submits has a change of
\* input - amount - fee_estimate that did not wrap around and is at least
\* the dust limit; when the change would be below the dust limit the call
\* fails before anything is sent.
C18_ChangeAboveDust ==
    [][\A p \in Procs :
        LET amt == local[p].payout.amount_satoshis
        IN  /\ (pc[p] = "bc_select" /\ pc'[p] # "bc_select" /\ local[p].buf # << >>
                /\ ToSatoshis(local[p].buf[1]) - amt - FeeEstimate < DustLimit)
               => pc'[p] = "idle" /\ sent' = sent
            /\ (pc[p] = "bc_send" /\ pc'[p] # "bc_send")
               => /\ ~U64Lt(local[p].input, amt)
                  /\ ~U64Lt(local[p].input - amt, FeeEstimate)
                  /\ local[p].amount = local[p].input - amt - FeeEstimate
                  /\ local[p].amount >= DustLimit]_vars

\* C19: add_earnings(a, amt, h) creates the MinerBalance of a with zero
\* totals when it is absent, then adds exactly amt to balance(a) and to
\* total_earned(a); total_paid(a), every other address and the payout list
\* stay; and no step of any operation removes an address from the map.
C19_AddEarningsEffect ==
    [][/\ DOMAIN balances \subseteq DOMAIN balances'
       /\ \A p \in Procs :
            (pc[p] = "add_earnings" /\ pc'[p] # "add_earnings")
            => LET a == local[p].address
                   amt == local[p].amount
                   old == IF a \in DOMAIN balances THEN balances[a]
                          ELSE [address |-> a, balance_satoshis |-> 0,
                                total_earned_satoshis |-> 0, total_paid_satoshis |-> 0]
               IN  /\ ret'[p] = "Ok"
                   /\ DOMAIN balances' = DOMAIN balances \cup {a}
                   /\ balances'[a].address = a
                   /\ balances'[a].balance_satoshis = old.balance_satoshis + amt
                   /\ balances'[a].total_earned_satoshis = old.total_earned_satoshis + amt
                   /\ balances'[a].total_paid_satoshis = old.total_paid_satoshis
                   /\ \A x \in DOMAIN balances \ {a} : balances'[x] = balances[x]
                   /\ payouts' = payouts]_vars

C19_Witness ==
    /\ pc[1] = "idle"
    /\ ret[1] = "Ok"
    /\ DOMAIN balances = {"a1", "a2"}
    /\ balances["a1"].total_earned_satoshis = 1
    /\ balances["a2"].total_earned_satoshis = 2
    /\ balances["a2"].balance_satoshis = 2
    /\ payouts = << >>
    /\ calls = 3

\* the difficulties of the shares of window that carry address a, summed
DifficultyOf(window, a) ==
    LET I == {i \in 1..Len(window) : window[i].btcaddress = a}
        F[S \in SUBSET I] ==
            IF S = {} THEN 0
            ELSE LET i == CHOOSE x \in S : TRUE IN window[i].difficulty + F[S \ {i}]
    IN  F[I]

\* the difficulties of all shares of window, summed
WindowDifficulty(window) ==
    LET F[n \in 0..Len(window)] == IF n = 0 THEN 0 ELSE window[n].difficulty + F[n - 1]
    IN  F[Len(window)]

\* rewards small enough for R * total_difficulty to be computed directly
SmallReward == 100000

\* the integer an amount below 2^31 stands for
ToInt(x) == x[1] + 10000 * x[2] + 100000000 * x[3]

\* C20: on a window of positive difficulty calculate_payout answers for every
\* address with a share, with total_difficulty the sum of the address's
\* share difficulties, payout = floor(R * total_difficulty / window
\* difficulty), pool_fee = floor(payout * fee_bps / 10000) and final_payout =
\* payout - pool_fee; [1000, 2000] out of 5000 with R = 100_000_000 and 100
\* bps give 60_000_000, 600_000 and 59_400_000.
C20_PayoutFormula ==
    LET wd == WindowDifficulty(shares)
        R == simulator.block_reward_satoshis
        bps == simulator.pool_fee_bps
    IN  /\ \A a \in Miners :
             (wd > 0 /\ \E i \in 1..Len(shares) : shares[i].btcaddress = a)
                => calculate_payout(shares, a).some
        /\ calc.some =>
             LET td == DifficultyOf(shares, calc.address)
             IN  /\ wd > 0
                 /\ calc.total_difficulty = td
                 /\ calc.final_payout_satoshis =
                        Minus(calc.payout_satoshis, calc.pool_fee_satoshis)
                 /\ ~Less(Sat(SmallReward), R) =>
                        /\ calc.payout_satoshis = Sat((ToInt(R) * td) \div wd)
                        /\ calc.pool_fee_satoshis =
                              Sat((ToInt(calc.payout_satoshis) * bps) \div 10000)
                 /\ (R = Sat(100000000) /\ bps = 100 /\ td = 3000 /\ wd = 5000) =>
                        /\ calc.payout_satoshis = Sat(60000000)
                        /\ calc.pool_fee_satoshis = Sat(600000)
                        /\ calc.final_payout_satoshis = Sat(59400000)

C20_Witness ==
    /\ calc.some
    /\ calc.address = "X"
    /\ calc.total_difficulty = 3000
    /\ WindowDifficulty(shares) = 5000
    /\ calc.final_payout_satoshis = Sat(59400000)

\* reward - floor(reward * fee_bps / 10000), computed without any wrapping
AvailableReward ==
    Minus(simulator.block_reward_satoshis,
          Over(Times(simulator.block_reward_satoshis, simulator.pool_fee_bps), 10000))

\* C21: for any share set, reward and fee_bps in 0..10000, the final payouts
\* of the distinct addresses sum to at most reward - floor(reward * fee_bps /
\* 10000), so that simulate_payouts returns valid = true for every share set.
C21_PayoutsWithinAvailable ==
    validation.state = "returned" =>
        /\ ~Less(AvailableReward, TotalPayout(validation.payouts))
        /\ validation.valid

\* C22: calculate_payout for the reward 2_100_000_000_000_000 and an address
\* whose total difficulty equals the window difficulty returns payout =
\* reward and final_payout = reward - floor(reward * fee_bps / 10000)
\* exactly; for all 64-bit rewards and share difficulties no intermediate
\* value (the difficulty sums, the product, the fee) wraps, is truncated or
\* panics.
C22_ExactWithoutWrap ==
    /\ calc # PanicCalc
    /\ \A a \in Miners : ~CalcOverflows(shares, a)
    /\ \A a \in Miners :
          (/\ simulator.block_reward_satoshis = MaxReward
           /\ MinerShares(shares, a) = shares
           /\ calculate_payout(shares, a).some)
             => /\ calculate_payout(shares, a).payout_satoshis = MaxReward
                /\ calculate_payout(shares, a).final_payout_satoshis = AvailableReward

\* address a has a share in the window
HasShare(window, a) == \E i \in 1..Len(window) : window[i].btcaddress = a

\* C23: calculate_payout returns None, never a calculation of zeros, when the
\* window is empty, when the window difficulty is 0, or when the address has
\* no share in the window; the result of simulate_payouts on such a window
\* holds no PayoutCalculation for that address.
C23_NoneWithoutWork ==
    /\ \A a \in Miners :
          (shares = << >> \/ WindowDifficulty(shares) = 0 \/ ~HasShare(shares, a))
             => ~calculate_payout(shares, a).some
    /\ calc.some =>
          /\ shares # << >>
          /\ WindowDifficulty(shares) # 0
          /\ HasShare(shares, calc.address)
    /\ validation.state = "returned" =>
          \A i \in 1..Len(validation.payouts) :
             /\ WindowDifficulty(shares) # 0
             /\ HasShare(shares, validation.payouts[i].address)

C23_Witness ==
    /\ shares # << >>
    /\ WindowDifficulty(shares) = 0
    /\ validation.state = "returned"
    /\ validation.unique_miners = 1
    /\ validation.payouts = << >>

\* C24: simulate_payouts returns valid = false, with an error entry, exactly
\* when the sum of the returned final payouts exceeds reward - floor(reward *
\* fee_bps / 10000); total_payout_satoshis always equals that sum, unclamped.
C24_InvalidIffExceeds ==
    LET exceeds == Less(AvailableReward, TotalPayout(validation.payouts))
    IN  validation.state # "none" =>
           /\ validation.state = "returned"
           /\ ~validation.valid <=> exceeds
           /\ validation.errors # << >> <=> exceeds
           /\ validation.total_payout_satoshis = TotalPayout(validation.payouts)

\* C25: simulate_payouts emits a warning for exactly the addresses whose
\* calculation has share_count > 0 and final_payout = 0, one warning per such
\* address, and no error for them: a result whose payouts are all zero is
\* valid.
C25_ZeroPayoutWarned ==
    validation.state = "returned" =>
        LET P == validation.payouts
            W == validation.warnings
            zero == {i \in 1..Len(P) : P[i].share_count > 0
                                       /\ P[i].final_payout_satoshis = Zero}
        IN  /\ {W[i] : i \in 1..Len(W)} = {P[i].address : i \in zero}
            /\ \A i, j \in 1..Len(W) : W[i] = W[j] => i = j
            /\ zero = 1..Len(P) => validation.valid /\ validation.errors = << >>

C25_Witness ==
    /\ validation.state = "returned"
    /\ Len(validation.warnings) = 1
    /\ Len(validation.payouts) = 2
    /\ validation.valid

RECURSIVE ShareCounts(_)
\* the share_count values of a list of calculations, summed
ShareCounts(list) ==
    IF list = << >> THEN 0 ELSE Head(list).share_count + ShareCounts(Tail(list))

\* C26: on a window of positive total difficulty simulate_payouts returns
\* exactly one PayoutCalculation per distinct miner address, unique_miners is
\* the number of distinct addresses, total_shares the number of shares, and
\* the share_count values sum to the number of shares that carry an address.
C26_OnePayoutPerMiner ==
    (validation.state = "returned" /\ WindowDifficulty(shares) > 0) =>
        LET P == validation.payouts
            addressed == {i \in 1..Len(shares) : shares[i].btcaddress # "none"}
            distinct == {shares[i].btcaddress : i \in addressed}
        IN  /\ \A a \in distinct : Cardinality({i \in 1..Len(P) : P[i].address = a}) = 1
            /\ \A i \in 1..Len(P) : P[i].address \in distinct
            /\ validation.unique_miners = Cardinality(distinct)
            /\ validation.total_shares = Len(shares)
            /\ ShareCounts(P) = Cardinality(addressed)

C26_Witness ==
    /\ validation.state = "returned"
    /\ WindowDifficulty(shares) > 0
    /\ Len(shares) = 4
    /\ Len(validation.payouts) = 2
    /\ ShareCounts(validation.payouts) = 3

\* C27: validate_difficulty_bounds returns an error for an empty window, for
\* a window with a share of difficulty 0, and for a window whose ratio of
\* largest to smallest difficulty exceeds 1000; it returns Ok otherwise.
C27_DifficultyBounds ==
    verdict.call = "validate_difficulty_bounds" =>
        LET D == {shares[i].difficulty : i \in 1..Len(shares)}
            rejected == \/ shares = << >>
                        \/ 0 \in D
                        \/ \E lo, hi \in D : hi > 1000 * lo
        IN  verdict.result # "Ok" <=> rejected

\* C28: validate_window_size returns an error exactly when the time between
\* the oldest and the newest share exceeds 2 * expected_window_days days; it
\* returns Ok otherwise, for the empty window too and whatever the order of
\* the shares.  (verdict.days is the argument of the call; for u64::MAX days
\* no span of the model exceeds the limit.)
C28_WindowSpan ==
    verdict.call = "validate_window_size" =>
        LET T == {shares[i].n_time : i \in 1..Len(shares)}
            exceeds == /\ verdict.days >= 0
                       /\ \E old, new \in T : new - old > 2 * verdict.days * Day
        IN  verdict.result = (IF exceeds THEN "PPLNS window spans too many days"
                              ELSE "Ok")

RpmOf(limiter) == IF limiter = "api" THEN api_rpm ELSE login_rpm

\* the number of instants of list that are younger than the window at now
Recent(list, now) ==
    Cardinality({j \in 1..Len(list) : now - list[j] < RateWindow})

\* the requests a limiter let through for an address: no more than its limit
\* in any window of RateWindow seconds that begins with one of them
WithinLimit(list, rpm) ==
    \A i \in 1..Len(list) :
        Cardinality({j \in 1..Len(list) :
                        list[i] <= list[j] /\ list[j] < list[i] + RateWindow}) <= rpm

\* the instants a limiter keeps for an address are the last of those it let
\* through
KeptOf(times, list) ==
    \A ip \in DOMAIN times :
        /\ Len(times[ip]) <= Len(list[ip])
        /\ times[ip] = SubSeq(list[ip], Len(list[ip]) - Len(times[ip]) + 1,
                              Len(list[ip]))

\* a check of limiter by caller p leaves the requests of the other addresses
\* as they were
OthersKept(p, limiter, times, times_after) ==
    \A other \in Ips \ {rate_call[p].ip} :
        /\ EntryOf(times_after, other) = EntryOf(times, other)
        /\ accepted'[limiter][other] = accepted[limiter][other]

\* a check of limiter by caller p answers TooManyRequests exactly when the
\* limiter let rpm requests of the address through in the last RateWindow
\* seconds, and then counts nothing
FurtherRejected(p, limiter) ==
    LET list == accepted[limiter][rate_call[p].ip]
        full == Recent(list, instant) >= RpmOf(limiter)
    IN  /\ rate_ret'[p] = (IF full THEN "TooManyRequests" ELSE "Ok")
        /\ full => accepted' = accepted
        /\ ~full => Len(accepted'[limiter][rate_call[p].ip]) = Len(list) + 1

\* C30: for each address check_api_rate_limit lets at most api_rpm requests
\* through in any window of 60 seconds and answers TooManyRequests to every
\* further one, also when calls overlap; a rejected request is not counted,
\* the addresses are counted apart, and check_login_rate_limit counts apart
\* from check_api_rate_limit, with login_rpm.
C30_RateLimited ==
    [][/\ \A limiter \in Limiters, ip \in Ips :
              WithinLimit(accepted'[limiter][ip], RpmOf(limiter))
       /\ KeptOf(api_request_times', accepted'["api"])
       /\ KeptOf(login_request_times', accepted'["login"])
       /\ \A p \in RateCallers, d \in PushDelays :
              /\ CheckApiRateLimit(p, d) =>
                    /\ FurtherRejected(p, "api")
                    /\ OthersKept(p, "api", api_request_times, api_request_times')
                    /\ login_request_times' = login_request_times
                    /\ accepted'["login"] = accepted["login"]
              /\ CheckLoginRateLimit(p, d) =>
                    /\ FurtherRejected(p, "login")
                    /\ OthersKept(p, "login", login_request_times,
                                  login_request_times')
                    /\ api_request_times' = api_request_times
                    /\ accepted'["api"] = accepted["api"]]_vars

\* an address met the limit of the API limiter, was answered TooManyRequests
\* by a check that found api_rpm requests kept, and was let through again once
\* its first requests were a minute old
C30_Witness ==
    \E ip \in Ips :
        /\ Len(accepted["api"][ip]) > api_rpm
        /\ Len(api_request_times[ip]) < Len(accepted["api"][ip])
        /\ \E p \in RateCallers : rate_ret[p] = "TooManyRequests"

\* C31: after every step the audit log holds at most max_logs entries,
\* whichever of AuditLogger::log, AuditLogBuilder::log and load_from_file made
\* the step, and the entries it kept of those it held before are the newest of
\* them, still at its head.
C31_AuditLogCapped ==
    [][/\ Len(audit_logs') <= max_logs
       /\ \E n \in 0..Len(audit_logs) :
             /\ Len(audit_logs') >= Len(audit_logs) - n
             /\ SubSeq(audit_logs', 1, Len(audit_logs) - n)
                    = SubSeq(audit_logs, n + 1, Len(audit_logs))]_vars

\* the await points at which a call asks for the lock of the balance map
BalanceAwaits ==
    {"add_earnings", "get_balance", "get_all_balances", "save_balances",
     "create_check", "create_debit", "confirm_paid", "stats_balances"}

\* caller p is granted the lock of the balance map in this step
AcquiresBalances(p) == pc[p] \in BalanceAwaits /\ pc'[p] # pc[p]

\* caller p holds the lock of the payout list
HoldsPayouts(p) == locks.payouts.w = p \/ p \in locks.payouts.r

\* C32: no operation is granted the lock of the balance map while it holds
\* the lock of the payout list.
C32_BalanceLockFirst ==
    [][\A p \in Procs : AcquiresBalances(p) => ~HoldsPayouts(p)]_vars

\* C33: the node is sent at most one transaction for each payout, over all
\* calls of broadcast_payout for its id, overlapping calls included.
C33_OneTransactionPerPayout == \A id \in PayoutIds : sent[id] <= 1

\* what load yields from the two files
LoadedBalances ==
    IF disk.balances.state = "ok" THEN BalancesFromJson(disk.balances.data) ELSE << >>

LoadedPayouts ==
    IF disk.payouts.state = "ok" THEN PayoutsFromJson(disk.payouts.data) ELSE << >>

\* C34: once every call has returned (and no disk write has failed), each
\* address with a payout record in payouts.json has a balance in
\* balances.json from which the amounts of its Pending, Broadcast and
\* Confirmed records are debited, also when a create_payout has run while
\* another save was under way.
C34_FilesOfOneState ==
    (Idle /\ faults = 0 /\ disk.payouts.state = "ok") =>
        \A i \in 1..Len(LoadedPayouts) :
            LET a == LoadedPayouts[i].address
            IN  /\ a \in DOMAIN LoadedBalances
                /\ LoadedBalances[a].total_earned_satoshis
                        - LoadedBalances[a].balance_satoshis
                      >= SumOver(LoadedPayouts, a, Reserving)

\* the ids of the records of a payout list
IdsOf(list) == {list[i].id : i \in 1..Len(list)}

\* the elements of a sequence
RangeOf(seq) == {seq[i] : i \in 1..Len(seq)}

\* what the claim asks of a process_auto_payouts call f that has ended, on
\* the ledger it leaves
AutoAsClaimed(f, ledger, list) ==
    LET before == f.before
        above == {a \in DOMAIN before.balances :
                     before.balances[a].balance_satoshis >= before.threshold}
        new == IdsOf(list) \ IdsOf(before.payouts)
    IN  /\ ~f.enabled =>
              /\ f.created = << >>
              /\ ledger = before.balances
              /\ list = before.payouts
        /\ f.enabled =>
              /\ new = RangeOf(f.created)
              /\ Len(f.created) = Cardinality(above)
              /\ \A a \in above : \E id \in new :
                    /\ PayoutOf(list, id).address = a
                    /\ PayoutOf(list, id).amount_satoshis
                          = before.balances[a].balance_satoshis
              /\ \A id \in new : PayoutOf(list, id).address \in above
              /\ f.attempts = f.created

\* C35: a process_auto_payouts call that finds auto_payout_enabled off returns
\* an empty list and leaves balances and payouts as they were; one that
\* finds it on creates exactly one payout, of the whole balance, for every
\* address whose balance is at least min_payout_satoshis and for no other,
\* and calls broadcast_payout for each of them, whatever the earlier
\* broadcasts answered.
C35_AutoPayouts ==
    [][\A p \in Procs :
          (~AutoIdle(p) /\ AutoIdle(p)') =>
              AutoAsClaimed(auto'[p], balances', payouts')]_vars

RECURSIVE TotalBeforeFee(_)
\* the sum of the proportional payouts of a list of calculations
TotalBeforeFee(list) ==
    IF list = << >> THEN Zero
    ELSE Plus(Head(list).payout_satoshis, TotalBeforeFee(Tail(list)))

\* the amount n, for a small n
Few(n) == <<n, 0, 0, 0, 0, 0, 0>>

\* C36: for a window of shares of positive difficulty the proportional
\* payouts simulate_payouts returns sum to at most the block reward, and, when
\* every share carries an address, to more than the reward less the number
\* of distinct addresses.
C36_RewardDistributed ==
    (/\ validation.state = "returned"
     /\ shares # << >>
     /\ \A i \in 1..Len(shares) : shares[i].difficulty # 0) =>
        LET reward == simulator.block_reward_satoshis
            total == TotalBeforeFee(validation.payouts)
        IN  /\ ~Less(reward, total)
            /\ (\A i \in 1..Len(shares) : shares[i].btcaddress # "none") =>
                  Less(reward, Plus(total, Few(Cardinality(UniqueMiners(shares)))))

\* C37: once simulate_payouts has acted, for a reward of up to
\* 2_100_000_000_000_000 and a fee of up to 10000 basis points, it has
\* returned, the product of reward and fee has stayed within 64 bits, and the
\* available reward it compared with is reward - floor(reward * fee / 10000).
C37_AvailableRewardExact ==
    validation.state # "none" =>
        /\ validation.state = "returned"
        /\ ~Less(U64Max, FeeProduct)
        /\ expected_total_payout = AvailableReward

\* the call of p is authenticate with the name of a user and the password
\* that user was created with
CorrectLogin(p) ==
    /\ auth_call[p].op = "authenticate"
    /\ FindUser(users, auth_call[p].username) # 0
    /\ BcryptVerify(auth_call[p].password,
                    users[FindUser(users, auth_call[p].username)].password_hash)

C40_ReloadFollowsFile ==
    \A cfg \in Configs :
        (config_file.content = cfg /\ validate_config(cfg)) ~>
            \/ config_file.content # cfg
            \/ /\ watcher_pc = "tick"
               /\ returned_config = cfg
               /\ checksum = compute_checksum(cfg)
               /\ last_modified >= config_file.modified
====
